---- MODULE Spec2Model ----
(***************************************************************************)
(* Model of the request-processing layer of Hire_Harsh: the validation     *)
(* gate (guardrails.py), the retrieval index (vectorstore_provider.py),    *)
(* the three pipeline singletons (rag_pipeline.py, summary_pipeline.py,    *)
(* job_matching.py) and the routes that call them (routes.py, auth.py,     *)
(* analytics.py).                                                          *)
(*                                                                         *)
(* Text is modelled as a sequence of runs.  A run is a record              *)
(*   [k, w, n, up]: kind, spelling (lower case), length, upper-case flag.  *)
(* "ws" is a run of n blanks, "fill" a run of n letters 'x' (a letter that *)
(* occurs in no keyword of the program), "word" one whole word, "punct" a  *)
(* punctuation character, "tag" the opening of a markup tag and "event" an *)
(* event-handler attribute up to its '='.                                  *)
(***************************************************************************)
EXTENDS Integers, Sequences, FiniteSets, TLC

\* ------------------------------------------------------------------ bounds
MaxSegs == 3          \* runs per query drawn by the validation specification

\* ------------------------------------------------------- program constants
min_query_length == 3
max_query_length == 1000
min_job_text_length == 50
max_job_text_length == 5000

\* --------------------------------------------------------------- text runs
WordLen(w) ==
  CASE w = "weather" -> 7 [] w = "sports" -> 6 [] w = "cooking" -> 7
    [] w = "movies" -> 6 [] w = "games" -> 5
    [] w = "fuck" -> 4 [] w = "shit" -> 4 [] w = "damn" -> 4
    [] w = "python" -> 6 [] w = "job" -> 3 [] w = "description" -> 11
    [] w = "requirements" -> 12 [] w = "erfahrung" -> 9
    [] w = "<script" -> 7 [] w = "onclick=" -> 8
    [] OTHER -> 1

Ws(n) == [k |-> "ws", w |-> " ", n |-> n, up |-> FALSE]
Fill(n) == [k |-> "fill", w |-> "x", n |-> n, up |-> FALSE]
Word(w, up) == [k |-> "word", w |-> w, n |-> WordLen(w), up |-> up]
Punct(c) == [k |-> "punct", w |-> c, n |-> 1, up |-> FALSE]
Tag(w) == [k |-> "tag", w |-> w, n |-> WordLen(w), up |-> FALSE]
Event(w) == [k |-> "event", w |-> w, n |-> WordLen(w), up |-> FALSE]

RECURSIVE StrLen(_)
StrLen(s) == IF s = <<>> THEN 0 ELSE Head(s).n + StrLen(Tail(s))

RECURSIVE LStrip(_)
LStrip(s) == IF s = <<>> THEN s
             ELSE IF Head(s).k = "ws" THEN LStrip(Tail(s)) ELSE s

RECURSIVE RStrip(_)
RStrip(s) == IF s = <<>> THEN s
             ELSE IF s[Len(s)].k = "ws" THEN RStrip(SubSeq(s, 1, Len(s) - 1)) ELSE s

str_strip(s) == RStrip(LStrip(s))

str_lower(s) == [i \in 1..Len(s) |-> [s[i] EXCEPT !.up = FALSE]]

\* `w in s` for a lower-case literal w: a word run spelled w, in lower case
Contains(s, w) == \E i \in 1..Len(s) : s[i].k = "word" /\ s[i].w = w /\ ~s[i].up

\* ------------------------------------------------------- results of a call
Ret(v) == [st |-> "ret", val |-> v, exc |-> "", msg |-> ""]
Raise(t, m) == [st |-> "raise", val |-> <<>>, exc |-> t, msg |-> m]
NoResult == [st |-> "none", val |-> <<>>, exc |-> "", msg |-> ""]

\* ---------------------------------------------------------------- messages
MSG_SHORT == "Query must be at least 3 characters long"
MSG_LONG == "Query too long. Maximum 1000 characters allowed."
MSG_OFFTOPIC == "Please ask questions related to professional qualifications and experience"
MSG_INJECTION == "Invalid query format detected. Please rephrase your question"
MSG_PROFESSIONAL == "Please rephrase your question professionally"
MSG_GENERIC == "Unable to process this query. Please rephrase your question"
MSG_MOCK == "Content contains inappropriate language"
\* texts of the exceptions of the content classifier of the guardrails package
CLS_TOXIC == "The following sentences in your response were found to be toxic:"
CLS_TOXIC_INJ == "The following sentences in your response were found to be toxic: ..injection.."
CLS_PROFANITY == "contains profanity. Please return profanity-free output."
CLS_OTHER == "model download failed"

\* the substring tests of the handler of validate_query_input on str(e).lower()
MsgHasInjection(m) == m = CLS_TOXIC_INJ
MsgHasProfane(m) == m \in {CLS_TOXIC, CLS_TOXIC_INJ, CLS_PROFANITY}
MsgHasKnown(m) == m \in {MSG_SHORT, MSG_LONG, MSG_OFFTOPIC}

\* outcomes of the classifier of the guardrails package: "pass" or a raise
ClassifierOutcomes == {"pass", CLS_TOXIC, CLS_TOXIC_INJ, CLS_PROFANITY, CLS_OTHER}

\* -------------------------------------------------------------- guardrails
bad_words == {"fuck", "shit", "damn"}
irrelevant_keywords == {"weather", "sports", "cooking", "movies", "games"}

\* MockGuard.validate: "pass" or the text of the exception it raises
MockGuard_validate(text) ==
  IF \E w \in bad_words : Contains(str_lower(text), w) THEN MSG_MOCK ELSE "pass"

\* the content validation both validators start with; ext is the outcome of
\* the classifier of the guardrails package, used when it is installed
content_guard(avail, text, ext) == IF avail THEN ext ELSE MockGuard_validate(text)

\* variants of the try block used to test the claims about it
validate_query_try_nostrip(avail, query, ext) ==
  LET g == content_guard(avail, query, ext) IN
  IF g # "pass" THEN Raise("Exception", g)
  ELSE IF StrLen(query) < min_query_length THEN Raise("ValueError", MSG_SHORT)
  ELSE IF StrLen(query) > max_query_length THEN Raise("ValueError", MSG_LONG)
  ELSE IF \E w \in irrelevant_keywords : Contains(str_lower(query), w)
       THEN Raise("ValueError", MSG_OFFTOPIC)
  ELSE Ret(query)

validate_query_try_nolower(avail, query, ext) ==
  LET g == content_guard(avail, query, ext) IN
  IF g # "pass" THEN Raise("Exception", g)
  ELSE IF StrLen(str_strip(query)) < min_query_length THEN Raise("ValueError", MSG_SHORT)
  ELSE IF StrLen(query) > max_query_length THEN Raise("ValueError", MSG_LONG)
  ELSE IF \E w \in irrelevant_keywords : Contains(query, w)
       THEN Raise("ValueError", MSG_OFFTOPIC)
  ELSE Ret(query)

\* the try block of validate_query_input
validate_query_try(avail, query, ext) ==
  LET g == content_guard(avail, query, ext) IN
  IF g # "pass" THEN Raise("Exception", g)
  ELSE IF StrLen(str_strip(query)) < min_query_length THEN Raise("ValueError", MSG_SHORT)
  ELSE IF StrLen(query) > max_query_length THEN Raise("ValueError", MSG_LONG)
  ELSE IF \E w \in irrelevant_keywords : Contains(str_lower(query), w)
       THEN Raise("ValueError", MSG_OFFTOPIC)
  ELSE Ret(query)

\* validate_query_input without its except handler
validate_query_input_nohandler(avail, query, ext) ==
  validate_query_try(avail, query, ext)

\* validate_query_input: the try block and the except handler
validate_query_input(avail, query, ext) ==
  LET r == validate_query_try(avail, query, ext) IN
  IF r.st = "ret" THEN r
  ELSE IF MsgHasInjection(r.msg) THEN Raise("ValueError", MSG_INJECTION)
  ELSE IF MsgHasProfane(r.msg) THEN Raise("ValueError", MSG_PROFESSIONAL)
  ELSE IF MsgHasKnown(r.msg) THEN r
  ELSE Raise("ValueError", MSG_GENERIC)

\* ------------------------------------------------- job text (InputValidator)
MSG_JOB_REQUIRED == "Job description text is required"
MSG_JOB_SHORT == "Job description text must be at least 50 characters"
MSG_JOB_LONG == "Job description text is too long. Maximum 5000 characters allowed."
MSG_JOB_SECTIONS == "Job description text must contain key sections like 'experience', 'position', 'role', etc."
MSG_JOB_TAGS == "Job description text contains potentially harmful HTML tags."
MSG_JOB_EVENTS == "Job description text contains potentially harmful event handlers."

english_keywords == {"job", "position", "role", "responsibilities", "skills",
                     "qualifications", "experience", "requirements"}
german_keywords == {"arbeit", "position", "rolle", "verantwortlichkeiten",
                    "fähigkeiten", "qualifikationen", "erfahrung", "anforderungen"}

\* whether a run starts / ends with a word character (for \b of the regex)
FirstIsWordChar(r) == r.k \in {"fill", "word", "event"}
LastIsWordChar(r) == r.k \in {"fill", "word", "tag"}

\* re.search(r"\b(k1|k2|...)\b", text, re.IGNORECASE)
SearchKeywords(text, K) ==
  \E i \in 1..Len(text) :
    /\ text[i].k = "word" /\ text[i].w \in K
    /\ (i = 1 \/ ~LastIsWordChar(text[i - 1]))
    /\ (i = Len(text) \/ ~FirstIsWordChar(text[i + 1]))

SearchTags(text) == \E i \in 1..Len(text) : text[i].k = "tag"
SearchEvents(text) == \E i \in 1..Len(text) : text[i].k = "event"

\* validate_job_text without the scan for event handlers
validate_job_text_noevents(text0) ==
  IF text0 = <<>> THEN [st |-> "ret", msg |-> "False"]
  ELSE LET text == str_strip(text0) IN
    IF StrLen(text) < min_job_text_length THEN [st |-> "ret", msg |-> "False"]
    ELSE IF StrLen(text) > max_job_text_length THEN [st |-> "raise", msg |-> MSG_JOB_LONG]
    ELSE IF ~(SearchKeywords(text, english_keywords) \/ SearchKeywords(text, german_keywords))
         THEN [st |-> "raise", msg |-> MSG_JOB_SECTIONS]
    ELSE IF SearchTags(text) THEN [st |-> "raise", msg |-> MSG_JOB_TAGS]
    ELSE [st |-> "ret", msg |-> "True"]

\* InputValidator.validate_job_text: "True", "False" or the ValueError it raises
validate_job_text(text0) ==
  IF text0 = <<>> THEN [st |-> "ret", msg |-> "False"]
  ELSE LET text == str_strip(text0) IN
    IF StrLen(text) < min_job_text_length THEN [st |-> "ret", msg |-> "False"]
    ELSE IF StrLen(text) > max_job_text_length THEN [st |-> "raise", msg |-> MSG_JOB_LONG]
    ELSE IF ~(SearchKeywords(text, english_keywords) \/ SearchKeywords(text, german_keywords))
         THEN [st |-> "raise", msg |-> MSG_JOB_SECTIONS]
    ELSE IF SearchTags(text) THEN [st |-> "raise", msg |-> MSG_JOB_TAGS]
    ELSE IF SearchEvents(text) THEN [st |-> "raise", msg |-> MSG_JOB_EVENTS]
    ELSE [st |-> "ret", msg |-> "True"]

\* re.sub(r"\s+", " ", text.strip())
clean_text(text) ==
  LET t == str_strip(text) IN
  [i \in 1..Len(t) |-> IF t[i].k = "ws" THEN Ws(1) ELSE t[i]]

\* DocumentHandler.process_text without its length check
process_text_nolength(text) ==
  LET v == validate_job_text(text) IN
  IF v.st = "raise" THEN Raise("ValueError", v.msg)
  ELSE Ret(clean_text(text))

\* DocumentHandler.process_text: the page content of the Document or ValueError
process_text(text) ==
  IF text = <<>> \/ StrLen(str_strip(text)) < min_job_text_length
  THEN Raise("ValueError", MSG_JOB_SHORT)
  ELSE LET v == validate_job_text(text) IN
       IF v.st = "raise" THEN Raise("ValueError", v.msg)
       ELSE Ret(clean_text(text))

\* process_job_description
process_job_description(text) ==
  IF text = <<>> THEN Raise("ValueError", MSG_JOB_REQUIRED)
  ELSE process_text(text)

\* f"JOB DESCRIPTION:\n{page_content}"
job_doc_content(page_content) ==
  << Word("job", TRUE), Ws(1), Word("description", TRUE), Punct(":"), Ws(1) >> \o page_content

\* ------------------------------------------------------------------ inputs
QueryRuns == { Ws(1), Ws(2), Ws(max_query_length), Fill(1), Fill(2),
               Fill(max_query_length - 2),
               Word("weather", FALSE), Word("games", TRUE),
               Word("damn", FALSE), Word("python", FALSE) }

RECURSIVE SeqsUpTo(_, _)
SeqsUpTo(S, n) ==
  IF n = 0 THEN { <<>> }
  ELSE LET P == SeqsUpTo(S, n - 1) IN
       P \cup { Append(s, x) : s \in { p \in P : Len(p) = n - 1 }, x \in S }

Queries == SeqsUpTo(QueryRuns, MaxSegs)


\* job texts of the job text specification: lengths at both sides of the
\* bounds, keywords of both languages, other words, markup
JobRuns == { Ws(1), Ws(3), Fill(36), Fill(37),
             Fill(max_job_text_length - 30), Fill(max_job_text_length - 29),
             Fill(max_job_text_length - 13), Fill(max_job_text_length - 12),
             Word("requirements", FALSE), Word("erfahrung", TRUE),
             Word("python", FALSE), Tag("<script"), Event("onclick=") }

JobInputs == SeqsUpTo(JobRuns, MaxSegs)

\* queries, model outputs and job texts drawn by the requests of Spec
ChatQueries == { << Word("python", FALSE) >>, << Fill(2) >> }
ModelResponses == { << Word("python", FALSE) >>, << >>, << Word("damn", FALSE) >> }
JobTexts == { << >>,
              << Ws(30), Fill(40), Ws(30) >>,
              << Word("requirements", FALSE), Ws(2), Fill(60) >>,
              << Word("requirements", FALSE), Ws(1), Fill(max_job_text_length - 15) >> }

\* the configured invite codes (config.invite_codes): code -> active
INVITE_CODES == [c \in {"DEMO-ACME-1234", "OLD-0000"} |-> c = "DEMO-ACME-1234"]
LoginCodes == {"DEMO-ACME-1234", "OLD-0000", "invalid"}

\* the company of get_user_info(code)
get_user_info(code) ==
  IF code = "anonymous" THEN "Anonymous User"
  ELSE IF code \in DOMAIN INVITE_CODES THEN "Acme" ELSE "Unknown"

\* the user_metadata argument of an invoke operation: None, or the user
\* code and the company as the routes build it
NoMeta == [user_code |-> "", company |-> ""]
MetaValues == { [user_code |-> c, company |-> get_user_info(c)] : c \in {"DEMO-ACME-1234", "anonymous"} }

\* page contents of the Documents handed to analyze_job_match: what
\* process_text makes of the job texts it accepts
JobDocs == { process_text(x).val : x \in { y \in JobTexts : process_text(y).st = "ret" } }

\* ------------------------------------------------------------------- state
NThreads == 2         \* threads calling the pipelines
MaxCalls == 2         \* pipeline operations called in one run of Spec
MaxRequests == 3      \* requests served in one run of SpecRoutes

Threads == 1..NThreads
Pipes == {"chat", "summary", "job"}

MSG_FALLBACK == "I'm sorry, but I cannot provide a response to that query."
MSG_SUMMARY_FAIL == "Unable to generate summary. Please try again."
MSG_JOB_FAIL == "Unable to complete job matching analysis. Please try again."
MSG_INTERNAL == "text of an internal ValueError"

VARIABLES
  guardrails_available,   \* GUARDRAILS_AVAILABLE: the import of the package succeeded
  vq,                     \* the query handed to validate_query_input
  vext,                   \* the outcome of the package's classifier on vq
  vout,                   \* the result of validate_query_input(vq)
  rout,                   \* the result of validate_response_output(vq)
  jt,                     \* the job text handed to process_text
  jout,                   \* the result of process_text(jt)
  jre,                    \* the result of the check of analyze_job_match on it
  langsmith_client,       \* AdvancedAnalytics.langsmith_client is set
  index,                  \* the persisted index: [dir, chunks]
  instance,               \* cls._instance and its _initialized attribute, per class
  chain,                  \* qa_chain / summary_chain / matching_chain: 0 is None
  chain_lock,             \* identity of the lock object in self._chain_lock
  history_lock,           \* identity of the lock object in self._history_lock
  chat_history,           \* self.chat_history: [none, turns]
  held,                   \* the lock objects each thread holds
  active_sessions,        \* auth.active_sessions: token -> invite code
  active_chat_runs,       \* AdvancedAnalytics.active_chat_runs: token -> query_count
  analytics_log,          \* lines of the analytics log file, counted by type
  next_token,             \* next session token to be generated
  nreq,                   \* requests started so far
  builds,                 \* chain builds completed, per pipeline
  pc,                     \* position of each thread
  req,                    \* the request each thread serves
  loc,                    \* local variables of each thread
  resp                    \* the response of the last request of each thread

vars == << guardrails_available, vq, vext, vout, rout, jt, jout, jre, langsmith_client, index, instance,
           chain, chain_lock, history_lock, chat_history, held, active_sessions,
           active_chat_runs, analytics_log, next_token, nreq, builds,
           pc, req, loc, resp >>

valVars == << vq, vext, vout, rout, jt, jout, jre >>
envVars == << guardrails_available, langsmith_client >>
authVars == << active_sessions, active_chat_runs, next_token >>
singVars == << instance, chain, chain_lock, history_lock, builds >>

\* ------------------------------------------------------------ lock objects
NoLock == << "none", "none", 0 >>
ClassLock(p) == << "class", p, 0 >>
ChainLock(p) == << "chain", p, chain_lock[p] >>
HistoryLock == << "history", "chat", history_lock >>
IsFree(l) == \A t \in Threads : l \notin held[t]

\* ---------------------------------------------------------------- results
Ans(text, msg) == [text |-> text, msg |-> msg]
NoAns == Ans(<< >>, "")
AnsEmpty(a) == a.msg = "" /\ StrLen(a.text) = 0

\* the result record of a pipeline call
Result(kind, a, sources, error) ==
  [kind |-> kind, answer |-> a, sources |-> sources, error |-> error]
NoRes == Result("none", NoAns, << >>, FALSE)

\* the outcome of a pipeline call: a result record, or the exception that
\* left it and where it was raised ("new": the constructor, "build": the
\* chain build at the start of the method)
Returned(r) == [st |-> "ret", exc |-> "", at |-> "", res |-> r]
Raised(e, at) == [st |-> "raise", exc |-> e, at |-> at, res |-> NoRes]
NoOut == [st |-> "none", exc |-> "", at |-> "", res |-> NoRes]

NoReq == [kind |-> "none", text |-> << >>, tok |-> 0, call |-> 0, direct |-> FALSE, code |-> "",
          meta |-> NoMeta]
NoResp == [status |-> 0, detail |-> "", out |-> NoOut]
Resp(status, detail, out) == [status |-> status, detail |-> detail, out |-> out]

\* what a thread did in get_vectorstore: the directory it found, the path it
\* took, the loads that succeeded, whether the embedding model and the store
\* worked, how it ended and the size of the index it returned; praise: the
\* load-and-count probe of _is_vectorstore_populated raised
NoVs == [entry |-> "none", path |-> "none", cv |-> FALSE, about |-> FALSE,
         store |-> FALSE, done |-> "none", count |-> 0, praise |-> FALSE]

\* p: the pipeline called; lock: the lock object taken; snap: current_history;
\* docs: the documents of load_documents; cont: where get_vectorstore returns to; out: the
\* outcome of the pipeline call; doc: page content of the job description;
\* idx, gen: index accesses and generation calls of this request; used: the
\* chain invoked; qc0: the query count of the session and h0: the number of
\* turns of the history when the request began; cx: the exception the try
\* block of the method caught ("validation": a ValueError of a validator);
\* inv: the calls of qa_chain.invoke of this request; ref: current_history
\* is the list object of self.chat_history itself, not a copy of it; ov: what
\* the output validator of the chain did ("": not run, "pass", "replaced")
InitLoc == [p |-> "none", lock |-> NoLock, snap |-> << >>, ref |-> FALSE, docs |-> << >>,
            cont |-> "none", out |-> NoOut, doc |-> << >>, vs |-> NoVs,
            idx |-> 0, gen |-> 0, used |-> 0, qc0 |-> 0, h0 |-> 0, cx |-> "",
            inv |-> 0, ov |-> "", traced |-> NoMeta]

\* validate_job_text has not been called
NoCheck == [st |-> "none", msg |-> ""]

\* ---------------------------------------------------------- initial state
PopulatedChunks == << "cv", "about_me" >>
InitialIndexes ==
  { [dir |-> d, chunks |-> << >>] : d \in {"missing", "empty", "other", "chroma"} }
  \cup { [dir |-> "chroma", chunks |-> PopulatedChunks] }

\* everything but the environment: no instance, no session, idle threads
InitProgram ==
  /\ vq = << >> /\ vext = "pass" /\ vout = NoResult /\ rout = NoResult
  /\ jt = << >> /\ jout = NoResult /\ jre = NoCheck
  /\ instance = [p \in Pipes |-> "None"]
  /\ chain = [p \in Pipes |-> 0]
  /\ chain_lock = [p \in Pipes |-> 0]
  /\ history_lock = 0
  /\ chat_history = [none |-> TRUE, turns |-> << >>]
  /\ held = [t \in Threads |-> {}]
  /\ active_sessions = << >>
  /\ active_chat_runs = << >>
  /\ analytics_log = [LOGIN |-> 0, CHAT |-> 0, SUMMARY |-> 0, JOB_MATCH |-> 0]
  /\ next_token = 1
  /\ nreq = 0
  /\ builds = [p \in Pipes |-> 0]
  /\ pc = [t \in Threads |-> "idle"]
  /\ req = [t \in Threads |-> NoReq]
  /\ loc = [t \in Threads |-> InitLoc]
  /\ resp = [t \in Threads |-> NoResp]

\* fresh process state for the threads of Spec: the package is not installed
\* (the mock guard is used), the index directory is empty or populated
Init ==
  /\ guardrails_available = FALSE
  /\ langsmith_client = FALSE
  /\ index \in { [dir |-> "empty", chunks |-> << >>],
                  [dir |-> "chroma", chunks |-> PopulatedChunks] }
  /\ InitProgram

\* fresh process state for the routes of SpecRoutes, in every environment
InitRoutes ==
  /\ guardrails_available \in BOOLEAN
  /\ langsmith_client \in BOOLEAN
  /\ index \in InitialIndexes
  /\ InitProgram

\* --------------------------------------------- validation specification
InitValidate ==
  /\ guardrails_available \in BOOLEAN
  /\ langsmith_client = FALSE
  /\ index = [dir |-> "missing", chunks |-> << >>]
  /\ instance = [p \in Pipes |-> "None"]
  /\ chain = [p \in Pipes |-> 0]
  /\ chain_lock = [p \in Pipes |-> 0]
  /\ history_lock = 0
  /\ chat_history = [none |-> TRUE, turns |-> << >>]
  /\ held = [t \in Threads |-> {}]
  /\ active_sessions = << >>
  /\ active_chat_runs = << >>
  /\ analytics_log = [LOGIN |-> 0, CHAT |-> 0, SUMMARY |-> 0, JOB_MATCH |-> 0]
  /\ next_token = 1
  /\ nreq = 0
  /\ builds = [p \in Pipes |-> 0]
  /\ pc = [t \in Threads |-> "idle"]
  /\ req = [t \in Threads |-> NoReq]
  /\ loc = [t \in Threads |-> InitLoc]
  /\ resp = [t \in Threads |-> NoResp]
  /\ vq \in Queries
  /\ vext \in ClassifierOutcomes
  /\ vout = NoResult
  /\ rout = NoResult
  /\ jt = << >> /\ jout = NoResult /\ jre = NoCheck

\* ------------------------------------------------ job text specification
\* a fresh process and one job text about to be ingested
InitJob ==
  /\ guardrails_available = FALSE
  /\ langsmith_client = FALSE
  /\ index = [dir |-> "missing", chunks |-> << >>]
  /\ vq = << >> /\ vext = "pass" /\ vout = NoResult /\ rout = NoResult
  /\ instance = [p \in Pipes |-> "None"]
  /\ chain = [p \in Pipes |-> 0]
  /\ chain_lock = [p \in Pipes |-> 0]
  /\ history_lock = 0
  /\ chat_history = [none |-> TRUE, turns |-> << >>]
  /\ held = [t \in Threads |-> {}]
  /\ active_sessions = << >>
  /\ active_chat_runs = << >>
  /\ analytics_log = [LOGIN |-> 0, CHAT |-> 0, SUMMARY |-> 0, JOB_MATCH |-> 0]
  /\ next_token = 1
  /\ nreq = 0
  /\ builds = [p \in Pipes |-> 0]
  /\ pc = [t \in Threads |-> "idle"]
  /\ req = [t \in Threads |-> NoReq]
  /\ loc = [t \in Threads |-> InitLoc]
  /\ resp = [t \in Threads |-> NoResp]
  /\ jt \in JobInputs
  /\ jout = NoResult
  /\ jre = NoCheck
\* ------------------------------------------------------------------ helpers
Put(f, k, v) == [x \in DOMAIN f \cup {k} |-> IF x = k THEN v ELSE f[x]]
Del(f, k) == [x \in (DOMAIN f) \ {k} |-> f[x]]
Min(a, b) == IF a < b THEN a ELSE b

\* one line appended to the analytics log, unless the write fails (the
\* failure is caught and logged by every log_* function)
LogLine(type, ok) == IF ok THEN [analytics_log EXCEPT ![type] = @ + 1] ELSE analytics_log

\* validate_invite_code without the test of the active flag
validate_invite_code_configured(code) == code \in DOMAIN INVITE_CODES

\* auth.validate_invite_code
validate_invite_code(code) == code \in DOMAIN INVITE_CODES /\ INVITE_CODES[code]

\* get_current_user without the lookup in active_sessions
get_current_user_anycookie(tok) == tok # 0

\* auth.get_current_user / require_auth on the cookie of a request
get_current_user(tok) == tok # 0 /\ tok \in DOMAIN active_sessions

\* AdvancedAnalytics.start_chat_session; runok: create_run did not raise
start_chat_session(tok, runok) ==
  IF langsmith_client /\ tok \notin DOMAIN active_chat_runs
  THEN IF runok THEN Put(active_chat_runs, tok, 0) ELSE active_chat_runs
  ELSE Put(active_chat_runs, tok, 0)

\* AdvancedAnalytics.end_chat_session
end_chat_session(tok) ==
  IF tok \in DOMAIN active_chat_runs THEN Del(active_chat_runs, tok) ELSE active_chat_runs

\* the query count recorded for a session
query_count(tok) == IF tok \in DOMAIN active_chat_runs THEN active_chat_runs[tok] ELSE 0

\* ------------------------------------------------------------------ routes
\* POST /auth/login
Login(t, code, logok, runok) ==
  /\ pc[t] = "idle" /\ nreq < MaxRequests
  /\ nreq' = nreq + 1
  /\ req' = [req EXCEPT ![t] = [kind |-> "login", text |-> << >>, tok |-> 0, call |-> nreq + 1, direct |-> FALSE, code |-> code, meta |-> NoMeta]]
  /\ analytics_log' = LogLine("LOGIN", logok)
  /\ IF validate_invite_code(code)
     THEN /\ active_sessions' = Put(active_sessions, next_token, code)
          /\ next_token' = next_token + 1
          /\ active_chat_runs' = start_chat_session(next_token, runok)
          /\ resp' = [resp EXCEPT ![t] = Resp(200, "Authentication successful", NoOut)]
     ELSE /\ resp' = [resp EXCEPT ![t] = Resp(401, "Invalid invite code", NoOut)]
          /\ UNCHANGED << active_sessions, next_token, active_chat_runs >>
  /\ UNCHANGED << valVars, envVars, index, singVars, chat_history, held, pc, loc >>

\* POST /auth/logout with the cookie tok (0: no cookie)
Logout(t, tok) ==
  /\ pc[t] = "idle" /\ nreq < MaxRequests
  /\ tok < next_token
  /\ nreq' = nreq + 1
  /\ req' = [req EXCEPT ![t] = [kind |-> "logout", text |-> << >>, tok |-> tok, call |-> nreq + 1, direct |-> FALSE, code |-> "", meta |-> NoMeta]]
  /\ IF tok # 0
     THEN /\ active_chat_runs' = end_chat_session(tok)
          /\ active_sessions' = IF tok \in DOMAIN active_sessions
                                THEN Del(active_sessions, tok) ELSE active_sessions
     ELSE UNCHANGED << active_chat_runs, active_sessions >>
  /\ resp' = [resp EXCEPT ![t] = Resp(200, "Logged out successfully", NoOut)]
  /\ UNCHANGED << valVars, envVars, index, singVars, chat_history, held, pc, loc,
                  analytics_log, next_token >>

PipeOf(kind) == IF kind = "job-match" THEN "job" ELSE kind

\* POST /chat, /summary, /job-match up to the call of the pipeline:
\* require_auth and, for job-match, process_job_description
RouteBegin(t, kind, tok, text) ==
  /\ pc[t] = "idle" /\ nreq < MaxRequests
  /\ tok < next_token
  /\ nreq' = nreq + 1
  /\ req' = [req EXCEPT ![t] = [kind |-> kind, text |-> text, tok |-> tok, call |-> nreq + 1, direct |-> FALSE, code |-> "",
                                 meta |-> IF get_current_user(tok) /\ tok \in DOMAIN active_sessions
                                          THEN [user_code |-> active_sessions[tok],
                                                company |-> get_user_info(active_sessions[tok])]
                                          ELSE NoMeta]]
  /\ IF ~get_current_user(tok)
     THEN /\ resp' = [resp EXCEPT ![t] = Resp(401, "Authentication required", NoOut)]
          /\ loc' = [loc EXCEPT ![t] = InitLoc]
          /\ UNCHANGED pc
     ELSE LET d == IF kind = "job-match" THEN process_job_description(text) ELSE Ret(<< >>) IN
          IF d.st = "raise"
          THEN /\ resp' = [resp EXCEPT ![t] = Resp(400, d.msg, NoOut)]
               /\ loc' = [loc EXCEPT ![t] = InitLoc]
               /\ UNCHANGED pc
          ELSE /\ resp' = [resp EXCEPT ![t] = NoResp]
               /\ loc' = [loc EXCEPT ![t] = [InitLoc EXCEPT !.p = PipeOf(kind), !.doc = d.val,
                                                           !.qc0 = query_count(tok),
                                                           !.h0 = Len(chat_history.turns)]]
               /\ pc' = [pc EXCEPT ![t] = "new1"]
  /\ UNCHANGED << valVars, envVars, index, singVars, chat_history, held, authVars,
                  analytics_log >>

\* the rest of the route with log functions that let the error of the write
\* reach the route
RouteEnd_propagating(t, logok) ==
  /\ pc[t] = "route_end"
  /\ LET o == loc[t].out
         k == req[t].kind IN
     IF o.st = "raise"
     THEN /\ resp' = [resp EXCEPT ![t] =
                 IF k = "job-match" /\ o.exc = "ValueError"
                 THEN Resp(400, MSG_INTERNAL, o)
                 ELSE Resp(500, "Internal Server Error", o)]
          /\ UNCHANGED analytics_log
     ELSE /\ resp' = [resp EXCEPT ![t] = IF logok THEN Resp(200, "", o)
                                         ELSE Resp(500, "Internal Server Error", o)]
          /\ analytics_log' = LogLine(CASE k = "chat" -> "CHAT" [] k = "summary" -> "SUMMARY"
                                        [] OTHER -> "JOB_MATCH", logok)
  /\ pc' = [pc EXCEPT ![t] = "idle"]
  /\ UNCHANGED << valVars, envVars, index, singVars, chat_history, held, authVars,
                  nreq, req, loc >>

\* the rest of the route after the pipeline call: the analytics line and the
\* response; an exception of the pipeline call is answered by the handler of
\* job_match_endpoint or, in the other routes, by the server as a 500
RouteEnd(t, logok) ==
  /\ pc[t] = "route_end"
  /\ LET o == loc[t].out
         k == req[t].kind IN
     IF o.st = "raise"
     THEN /\ resp' = [resp EXCEPT ![t] =
                 IF k = "job-match" /\ o.exc = "ValueError"
                 THEN Resp(400, MSG_INTERNAL, o)
                 ELSE Resp(500, "Internal Server Error", o)]
          /\ UNCHANGED analytics_log
     ELSE /\ resp' = [resp EXCEPT ![t] = Resp(200, "", o)]
          /\ analytics_log' = LogLine(CASE k = "chat" -> "CHAT" [] k = "summary" -> "SUMMARY"
                                        [] OTHER -> "JOB_MATCH", logok)
  /\ pc' = [pc EXCEPT ![t] = "idle"]
  /\ UNCHANGED << valVars, envVars, index, singVars, chat_history, held, authVars,
                  nreq, req, loc >>

\* a pipeline operation called directly by a thread: get_chat_completion(q),
\* get_auto_summary() or analyze_job_match(Document(page_content = text)),
\* with the user_metadata argument meta
DirectCall(t, kind, text, meta) ==
  /\ pc[t] = "idle" /\ nreq < MaxCalls
  /\ nreq' = nreq + 1
  /\ req' = [req EXCEPT ![t] = [kind |-> kind, text |-> text, tok |-> 0, call |-> nreq + 1,
                                 direct |-> TRUE, code |-> "", meta |-> meta]]
  /\ loc' = [loc EXCEPT ![t] = [InitLoc EXCEPT !.p = PipeOf(kind), !.doc = text,
                                               !.h0 = Len(chat_history.turns)]]
  /\ pc' = [pc EXCEPT ![t] = "new1"]
  /\ UNCHANGED << valVars, envVars, index, singVars, chat_history, held, authVars,
                  analytics_log, resp >>

\* ------------------------------------------------- singleton construction
P(t) == loc[t].p

\* where a thread goes when the pipeline call is over: back to the route
\* that called it, or idle when the operation was called directly
EndPc(t) == IF req[t].direct THEN "idle" ELSE "route_end"

Goto(t, l) == pc' = [pc EXCEPT ![t] = l]
Acquire(t, l) == /\ IsFree(l)
                 /\ held' = [held EXCEPT ![t] = @ \cup {l}]
Release(t, l) == held' = [held EXCEPT ![t] = @ \ {l}]

\* the exception types a failing collaborator raises
ExcTypes == {"Exception", "ValueError"}

\* __new__: `if cls._instance is None` outside the lock
New1(t) ==
  /\ pc[t] = "new1"
  /\ Goto(t, IF instance[P(t)] = "None" THEN "new_acq" ELSE "init1")
  /\ UNCHANGED << valVars, envVars, index, singVars, chat_history, held, authVars,
                  analytics_log, nreq, req, loc, resp >>

\* __new__ without the check inside the lock
NewAcquire_nocheck(t) ==
  /\ pc[t] = "new_acq"
  /\ IsFree(ClassLock(P(t)))
  /\ instance' = [instance EXCEPT ![P(t)] = "created"]
  /\ held' = [held EXCEPT ![t] = @ \cup {ClassLock(P(t))}]
  /\ Goto(t, "new3")
  /\ UNCHANGED << valVars, envVars, index, chain, chain_lock, history_lock, builds,
                  chat_history, authVars, analytics_log, nreq, req, loc, resp >>

\* __new__: `with cls._lock`, the check inside the lock and
\* `cls._instance = super().__new__(cls)`
NewAcquire(t) ==
  /\ pc[t] = "new_acq"
  /\ IsFree(ClassLock(P(t)))
  /\ IF instance[P(t)] = "None"
     THEN /\ instance' = [instance EXCEPT ![P(t)] = "created"]
          /\ held' = [held EXCEPT ![t] = @ \cup {ClassLock(P(t))}]
          /\ Goto(t, "new3")
     ELSE /\ Goto(t, "init1")
          /\ UNCHANGED << instance, held >>
  /\ UNCHANGED << valVars, envVars, index, chain, chain_lock, history_lock, builds,
                  chat_history, authVars, analytics_log, nreq, req, loc, resp >>

\* __new__: `cls._instance._initialized = False` and the end of the with block
New3(t) ==
  /\ pc[t] = "new3"
  /\ instance' = [instance EXCEPT ![P(t)] = "uninit"]
  /\ Release(t, ClassLock(P(t)))
  /\ Goto(t, "init1")
  /\ UNCHANGED << valVars, envVars, index, chain, chain_lock, history_lock, builds,
                  chat_history, authVars, analytics_log, nreq, req, loc, resp >>

\* __init__: `if hasattr(self, "_initialized") and self._initialized: return`,
\* then the components; SummaryGenerator and JobMatchingAnalyzer also create
\* the language model here, which can raise (exc)
Init1(t, exc) ==
  /\ pc[t] = "init1"
  /\ IF instance[P(t)] = "ready"
     THEN /\ Goto(t, "call1")
          /\ UNCHANGED loc
     ELSE IF exc # "none" /\ P(t) # "chat"
     THEN /\ loc' = [loc EXCEPT ![t].out = Raised(exc, "new")]
          /\ Goto(t, EndPc(t))
     ELSE /\ Goto(t, "init3")
          /\ UNCHANGED loc
  /\ UNCHANGED << valVars, envVars, index, singVars, chat_history, held, authVars,
                  analytics_log, nreq, req, resp >>

\* __init__: `self.qa_chain = None` and `self.chat_history = None`
Init3(t) ==
  /\ pc[t] = "init3"
  /\ chain' = [chain EXCEPT ![P(t)] = 0]
  /\ chat_history' = IF P(t) = "chat" THEN [none |-> TRUE, turns |-> << >>] ELSE chat_history
  /\ Goto(t, "init4")
  /\ UNCHANGED << valVars, envVars, index, instance, chain_lock, history_lock, builds,
                  held, authVars, analytics_log, nreq, req, loc, resp >>

\* __init__: `self._chain_lock = threading.Lock()`,
\* `self._history_lock = threading.Lock()` and `self._initialized = True`
Init4(t) ==
  /\ pc[t] = "init4"
  /\ chain_lock' = [chain_lock EXCEPT ![P(t)] = @ + 1]
  /\ history_lock' = IF P(t) = "chat" THEN history_lock + 1 ELSE history_lock
  /\ instance' = [instance EXCEPT ![P(t)] = "ready"]
  /\ Goto(t, "call1")
  /\ UNCHANGED << valVars, envVars, index, chain, builds, chat_history,
                  held, authVars, analytics_log, nreq, req, loc, resp >>

\* ------------------------------------------------------ lazy chain build
\* where the method goes on once the chain is there
BodyPc(p) == CASE p = "chat" -> "h1_acq" [] p = "summary" -> "s_run" [] OTHER -> "vs_probe"
BodyCont(p) == IF p = "job" THEN "j_run" ELSE "none"

\* _initialize_*_chain: the check outside the lock
Call1(t) ==
  /\ pc[t] = "call1"
  /\ IF chain[P(t)] # 0
     THEN /\ Goto(t, BodyPc(P(t)))
          /\ loc' = [loc EXCEPT ![t].cont = BodyCont(P(t)), ![t].traced = req[t].meta]
     ELSE /\ Goto(t, "ch_acq")
          /\ UNCHANGED loc
  /\ UNCHANGED << valVars, envVars, index, singVars, chat_history, held, authVars,
                  analytics_log, nreq, req, resp >>

\* _initialize_*_chain: `with self._chain_lock`, on the lock object the
\* attribute holds at that moment, and the check inside the lock; the chat
\* build starts with get_vectorstore
ChainAcquire(t) ==
  /\ pc[t] = "ch_acq"
  /\ IsFree(ChainLock(P(t)))
  /\ IF chain[P(t)] # 0
     THEN /\ UNCHANGED held
          /\ loc' = [loc EXCEPT ![t].cont = BodyCont(P(t)), ![t].traced = req[t].meta]
          /\ Goto(t, BodyPc(P(t)))
     ELSE /\ held' = [held EXCEPT ![t] = @ \cup {ChainLock(P(t))}]
          /\ loc' = [loc EXCEPT ![t].lock = ChainLock(P(t)), ![t].cont = "ch_set"]
          /\ Goto(t, IF P(t) = "chat" THEN "vs_probe" ELSE "ch_set")
  /\ UNCHANGED << valVars, envVars, index, singVars, chat_history, authVars,
                  analytics_log, nreq, req, resp >>

\* _initialize_*_chain with the chain attribute assigned before the step that
\* raises
ChainSet_halfbuilt(t, exc) ==
  /\ pc[t] = "ch_set"
  /\ Release(t, loc[t].lock)
  /\ builds' = [builds EXCEPT ![P(t)] = @ + 1]
  /\ chain' = [chain EXCEPT ![P(t)] = builds[P(t)] + 1]
  /\ IF exc # "none"
     THEN /\ loc' = [loc EXCEPT ![t].lock = NoLock, ![t].out = Raised(exc, "build")]
          /\ Goto(t, EndPc(t))
     ELSE /\ loc' = [loc EXCEPT ![t].lock = NoLock, ![t].cont = BodyCont(P(t)),
                                 ![t].traced = req[t].meta]
          /\ Goto(t, BodyPc(P(t)))
  /\ UNCHANGED << valVars, envVars, index, instance, chain_lock, history_lock,
                  chat_history, authVars, analytics_log, nreq, req, resp >>

\* _initialize_*_chain going on to the method body inside the with block: the
\* chain lock is released when the build raises only
ChainSet_holding(t, exc) ==
  /\ pc[t] = "ch_set"
  /\ IF exc # "none"
     THEN /\ Release(t, loc[t].lock)
          /\ loc' = [loc EXCEPT ![t].lock = NoLock, ![t].out = Raised(exc, "build")]
          /\ Goto(t, EndPc(t))
          /\ UNCHANGED << chain, builds >>
     ELSE /\ builds' = [builds EXCEPT ![P(t)] = @ + 1]
          /\ chain' = [chain EXCEPT ![P(t)] = builds[P(t)] + 1]
          /\ loc' = [loc EXCEPT ![t].lock = NoLock, ![t].cont = BodyCont(P(t)),
                                 ![t].traced = req[t].meta]
          /\ Goto(t, BodyPc(P(t)))
          /\ UNCHANGED held
  /\ UNCHANGED << valVars, envVars, index, instance, chain_lock, history_lock,
                  chat_history, authVars, analytics_log, nreq, req, resp >>

\* _initialize_*_chain: the prompts, the model and the chain objects, the
\* assignment of the chain and the end of the with block; exc: what raised
ChainSet(t, exc) ==
  /\ pc[t] = "ch_set"
  /\ Release(t, loc[t].lock)
  /\ IF exc # "none"
     THEN /\ loc' = [loc EXCEPT ![t].lock = NoLock, ![t].out = Raised(exc, "build")]
          /\ Goto(t, EndPc(t))
          /\ UNCHANGED << chain, builds >>
     ELSE /\ builds' = [builds EXCEPT ![P(t)] = @ + 1]
          /\ chain' = [chain EXCEPT ![P(t)] = builds[P(t)] + 1]
          /\ loc' = [loc EXCEPT ![t].lock = NoLock, ![t].cont = BodyCont(P(t)),
                                 ![t].traced = req[t].meta]
          /\ Goto(t, BodyPc(P(t)))
  /\ UNCHANGED << valVars, envVars, index, instance, chain_lock, history_lock,
                  chat_history, authVars, analytics_log, nreq, req, resp >>

\* -------------------------------------------------------- retrieval index
ChunksPerDoc == 1
retrieval_k == 8

\* a loader's documents: metadata["source"] is the path of the file
LoadedDoc(path) == [source |-> path]

\* setup_vectorstore without the tag of the biography
tag_documents_untagged(cv_ok, about_ok) ==
  (IF cv_ok THEN << [LoadedDoc("data/cv.pdf") EXCEPT !.source = "cv"] >> ELSE << >>)
  \o (IF about_ok THEN << LoadedDoc("data/about_me.md") >> ELSE << >>)

\* setup_vectorstore with both loads in one try block: a failed load loses
\* the documents of both sources
tag_documents_together(cv_ok, about_ok) ==
  IF cv_ok /\ about_ok
  THEN << [LoadedDoc("data/cv.pdf") EXCEPT !.source = "cv"],
          [LoadedDoc("data/about_me.md") EXCEPT !.source = "about_me"] >>
  ELSE << >>

\* setup_vectorstore: the two loads, each tagged with its source; a failed
\* load gives no document
tag_documents(cv_ok, about_ok) ==
  (IF cv_ok THEN << [LoadedDoc("data/cv.pdf") EXCEPT !.source = "cv"] >> ELSE << >>)
  \o (IF about_ok THEN << [LoadedDoc("data/about_me.md") EXCEPT !.source = "about_me"] >>
      ELSE << >>)

\* RecursiveCharacterTextSplitter.split_documents: every chunk keeps the
\* metadata of its document
RECURSIVE split_documents(_)
split_documents(docs) ==
  IF docs = << >> THEN << >>
  ELSE [i \in 1..ChunksPerDoc |-> Head(docs).source] \o split_documents(Tail(docs))

\* _is_vectorstore_populated without the load-and-count probe
is_vectorstore_populated_nocount(probe_raises) ==
  IF index.dir = "empty" THEN FALSE
  ELSE IF index.dir # "chroma" THEN FALSE
  ELSE TRUE

\* _is_vectorstore_populated; probe_raises: loading or counting raised
is_vectorstore_populated(probe_raises) ==
  IF index.dir = "empty" THEN FALSE
  ELSE IF index.dir # "chroma" THEN FALSE
  ELSE IF probe_raises THEN FALSE
  ELSE Len(index.chunks) # 0

\* the condition of get_vectorstore without the population probe
needs_setup_missing_only(probe_raises) ==
  index.dir = "missing"

\* the condition of get_vectorstore for a rebuild
needs_setup(probe_raises) ==
  index.dir = "missing" \/ ~is_vectorstore_populated(probe_raises)

\* an exception leaves get_vectorstore and, in the chat build, the method
\* without the end of the with block
VsRaise_holding(t, v) ==
  IF loc[t].cont = "ch_set"
  THEN /\ UNCHANGED held
       /\ loc' = [loc EXCEPT ![t].lock = NoLock, ![t].out = Raised("Exception", "build"),
                             ![t].vs = [v EXCEPT !.done = "raise"]]
       /\ Goto(t, EndPc(t))
  ELSE /\ UNCHANGED held
       /\ loc' = [loc EXCEPT ![t].out =
                    Returned(Result("fallback", Ans(<< >>, MSG_JOB_FAIL), << >>, TRUE)),
                             ![t].vs = [v EXCEPT !.done = "raise"]]
       /\ Goto(t, EndPc(t))

\* an exception leaves get_vectorstore: inside the chat build it leaves
\* get_completion, in analyze_job_match it is caught; v: what the thread did
VsRaise(t, v) ==
  IF loc[t].cont = "ch_set"
  THEN /\ Release(t, loc[t].lock)
       /\ loc' = [loc EXCEPT ![t].lock = NoLock, ![t].out = Raised("Exception", "build"),
                             ![t].vs = [v EXCEPT !.done = "raise"]]
       /\ Goto(t, EndPc(t))
  ELSE /\ UNCHANGED held
       /\ loc' = [loc EXCEPT ![t].out =
                    Returned(Result("fallback", Ans(<< >>, MSG_JOB_FAIL), << >>, TRUE)),
                             ![t].vs = [v EXCEPT !.done = "raise"]]
       /\ Goto(t, EndPc(t))

\* get_vectorstore waiting while another thread is in setup_vectorstore
VsProbe_exclusive(t, probe_raises) ==
  /\ pc[t] = "vs_probe"
  /\ \A u \in Threads \ {t} : pc[u] # "vs_setup"
  /\ Goto(t, IF needs_setup(probe_raises) THEN "vs_setup" ELSE "vs_load")
  /\ loc' = [loc EXCEPT ![t].idx = 1, ![t].vs.entry = index.dir,
                        ![t].vs.praise = (index.dir = "chroma" /\ probe_raises),
                        ![t].vs.path = IF needs_setup(probe_raises) THEN "setup" ELSE "load"]
  /\ UNCHANGED << valVars, envVars, index, singVars, chat_history, held, authVars,
                  analytics_log, nreq, req, resp >>

\* get_vectorstore: the existence check and the population probe
VsProbe(t, probe_raises) ==
  /\ pc[t] = "vs_probe"
  /\ Goto(t, IF needs_setup(probe_raises) THEN "vs_setup" ELSE "vs_load")
  /\ loc' = [loc EXCEPT ![t].idx = 1, ![t].vs.entry = index.dir,
                        ![t].vs.praise = (index.dir = "chroma" /\ probe_raises),
                        ![t].vs.path = IF needs_setup(probe_raises) THEN "setup" ELSE "load"]
  /\ UNCHANGED << valVars, envVars, index, singVars, chat_history, held, authVars,
                  analytics_log, nreq, req, resp >>

\* setup_vectorstore: load, tag and split the documents, then the embedding
\* model and Chroma.from_documents, which adds the chunks to the persisted
\* collection; ok: neither of the last two raised
VsSetup(t, cv_ok, about_ok, ok) ==
  /\ pc[t] = "vs_setup"
  /\ LET document_chunks == split_documents(tag_documents(cv_ok, about_ok))
         v == [loc[t].vs EXCEPT !.cv = cv_ok, !.about = about_ok, !.store = ok] IN
     IF ok
     THEN /\ index' = [dir |-> "chroma", chunks |-> index.chunks \o document_chunks]
          /\ loc' = [loc EXCEPT ![t].vs = [v EXCEPT !.done = "ret",
                                                     !.count = Len(index'.chunks)]]
          /\ Goto(t, loc[t].cont)
          /\ UNCHANGED held
     ELSE /\ VsRaise(t, v)
          /\ UNCHANGED index
  /\ UNCHANGED << valVars, envVars, singVars, chat_history, authVars,
                  analytics_log, nreq, req, resp >>

\* get_vectorstore: load the existing index
VsLoad(t, ok) ==
  /\ pc[t] = "vs_load"
  /\ IF ok
     THEN /\ loc' = [loc EXCEPT ![t].vs.store = TRUE, ![t].vs.done = "ret",
                                ![t].vs.count = Len(index.chunks)]
          /\ Goto(t, loc[t].cont)
          /\ UNCHANGED held
     ELSE VsRaise(t, loc[t].vs)
  /\ UNCHANGED << valVars, envVars, index, singVars, chat_history, authVars,
                  analytics_log, nreq, req, resp >>

\* retriever.invoke: at most k chunks of the collection
retrieve(k) == SubSeq(index.chunks, 1, Min(k, Len(index.chunks)))

\* ------------------------------------------------------------ validation
\* the try block of validate_response_output: the guards, then the response
validate_response_try(avail, response, ext) ==
  LET g == content_guard(avail, response, ext) IN
  IF g # "pass" THEN [Raise("Exception", g) EXCEPT !.val = NoAns]
  ELSE Ret(Ans(response, ""))

\* validate_response_output without its except clause
validate_response_result_nohandler(avail, response, ext) ==
  validate_response_try(avail, response, ext)

\* validate_response_output as a call: the try block and `except Exception`,
\* which returns the configured fallback
validate_response_result(avail, response, ext) ==
  LET r == validate_response_try(avail, response, ext) IN
  IF r.st = "ret" THEN r ELSE Ret(Ans(<< >>, MSG_FALLBACK))

\* validate_response_output returning the response whatever the guards say
validate_response_output_passthrough(avail, response, ext) ==
  Ans(response, "")

\* validate_response_output: the response or the configured fallback
validate_response_output(avail, response, ext) ==
  validate_response_result(avail, response, ext).val

\* ------------------------------------------------- get_completion (chat)
ChatFallback == Returned(Result("fallback", Ans(<< >>, MSG_FALLBACK), << >>, FALSE))

Turn(role, content, call) == [role |-> role, content |-> content, call |-> call]

\* `with self._history_lock` before the chain runs
H1Acquire(t) ==
  /\ pc[t] = "h1_acq"
  /\ Acquire(t, HistoryLock)
  /\ loc' = [loc EXCEPT ![t].lock = HistoryLock]
  /\ Goto(t, "h1_body")
  /\ UNCHANGED << valVars, envVars, index, singVars, chat_history, authVars,
                  analytics_log, nreq, req, resp >>

\* the with block with a history per call: the copy holds the turns of the
\* caller's own call only
H1Body_isolated(t) ==
  /\ pc[t] = "h1_body"
  /\ LET turns == Append(chat_history.turns, Turn("human", Ans(req[t].text, ""), req[t].call))
         IsOwn(x) == x.call = req[t].call IN
     /\ chat_history' = [none |-> FALSE, turns |-> turns]
     /\ loc' = [loc EXCEPT ![t].lock = NoLock, ![t].snap = SelectSeq(turns, IsOwn)]
  /\ Release(t, loc[t].lock)
  /\ Goto(t, "invoke")
  /\ UNCHANGED << valVars, envVars, index, singVars, authVars,
                  analytics_log, nreq, req, resp >>

\* the with block with the company of the caller recorded in the turn
H1Body_tagged(t) ==
  /\ pc[t] = "h1_body"
  /\ LET turns == Append(chat_history.turns,
                         Turn("human", Ans(req[t].text, req[t].meta.company), req[t].call)) IN
     /\ chat_history' = [none |-> FALSE, turns |-> turns]
     /\ loc' = [loc EXCEPT ![t].lock = NoLock, ![t].snap = turns]
  /\ Release(t, loc[t].lock)
  /\ Goto(t, "invoke")
  /\ UNCHANGED << valVars, envVars, index, singVars, authVars,
                  analytics_log, nreq, req, resp >>

\* the with block without the copy: current_history is self.chat_history
H1Body_nocopy(t) ==
  /\ pc[t] = "h1_body"
  /\ LET turns == Append(chat_history.turns, Turn("human", Ans(req[t].text, ""), req[t].call)) IN
     /\ chat_history' = [none |-> FALSE, turns |-> turns]
     /\ loc' = [loc EXCEPT ![t].lock = NoLock, ![t].snap = turns, ![t].ref = TRUE]
  /\ Release(t, loc[t].lock)
  /\ Goto(t, "invoke")
  /\ UNCHANGED << valVars, envVars, index, singVars, authVars,
                  analytics_log, nreq, req, resp >>

\* the human turn is appended and the history copied; end of the with block
H1Body(t) ==
  /\ pc[t] = "h1_body"
  /\ LET turns == Append(chat_history.turns, Turn("human", Ans(req[t].text, ""), req[t].call)) IN
     /\ chat_history' = [none |-> FALSE, turns |-> turns]
     /\ loc' = [loc EXCEPT ![t].lock = NoLock, ![t].snap = turns]
  /\ Release(t, loc[t].lock)
  /\ Goto(t, "invoke")
  /\ UNCHANGED << valVars, envVars, index, singVars, authVars,
                  analytics_log, nreq, req, resp >>

\* the history the chain of the call of t is given: {"chat_history":
\* current_history}
current_history(t) == IF loc[t].ref THEN chat_history.turns ELSE loc[t].snap

\* what the classifier of the package can answer: it runs only when the
\* package is installed
ExtOutcomes == IF guardrails_available THEN ClassifierOutcomes ELSE {"pass"}

\* outcomes of retrieval and generation: a model output or a raise
GenOutcomes == { [st |-> "ok", text |-> r, exc |-> ""] : r \in ModelResponses }
               \cup { [st |-> "raise", text |-> << >>, exc |-> e] : e \in ExcTypes }

\* self.qa_chain.invoke: input validation, history-aware retrieval and
\* generation, output validation; and the two except clauses of
\* get_completion for what it raises
ChatInvoke(t, ext_in, g, ext_out) ==
  /\ pc[t] = "invoke"
  /\ ext_in \in ExtOutcomes /\ ext_out \in ExtOutcomes
  /\ IF chain["chat"] = 0
     THEN \* qa_chain is None: AttributeError, caught as Exception
          /\ loc' = [loc EXCEPT ![t].out = ChatFallback, ![t].cx = "AttributeError"]
          /\ Goto(t, EndPc(t))
     ELSE LET v == validate_query_input(guardrails_available, req[t].text, ext_in) IN
          IF v.st = "raise"
          THEN /\ loc' = [loc EXCEPT ![t].used = chain["chat"], ![t].inv = @ + 1,
                      ![t].cx = "validation", ![t].out =
                      IF v.exc = "ValueError"
                      THEN Returned(Result("validation", Ans(<< >>, v.msg), << >>, FALSE))
                      ELSE ChatFallback]
               /\ Goto(t, EndPc(t))
          ELSE IF g.st = "raise"
          THEN /\ loc' = [loc EXCEPT ![t].used = chain["chat"], ![t].idx = 1, ![t].gen = 1,
                      ![t].inv = @ + 1,
                      ![t].cx = g.exc, ![t].out =
                      IF g.exc = "ValueError"
                      THEN Returned(Result("internal", Ans(<< >>, MSG_INTERNAL), << >>, FALSE))
                      ELSE ChatFallback]
               /\ Goto(t, EndPc(t))
          ELSE /\ loc' = [loc EXCEPT ![t].used = chain["chat"], ![t].idx = 1, ![t].gen = 1,
                      ![t].inv = @ + 1,
                      ![t].ov = (IF validate_response_try(guardrails_available, g.text,
                                                          ext_out).st = "ret"
                                 THEN "pass" ELSE "replaced"),
                      ![t].out = Returned(Result("generated",
                          validate_response_output(guardrails_available, g.text, ext_out),
                          retrieve(retrieval_k), FALSE))]
               /\ Goto(t, "h2")
  /\ UNCHANGED << valVars, envVars, index, singVars, chat_history, held, authVars,
                  analytics_log, nreq, req, resp >>

\* `with self._history_lock` after the chain returned: the assistant turn
\* is appended; then the return
H2(t) ==
  /\ pc[t] = "h2"
  /\ IsFree(HistoryLock)
  /\ IF chat_history.none
     THEN \* self.chat_history is None: AttributeError, caught as Exception
          /\ loc' = [loc EXCEPT ![t].out = ChatFallback, ![t].cx = "AttributeError"]
          /\ UNCHANGED chat_history
     ELSE /\ chat_history' = [chat_history EXCEPT !.turns =
                 Append(@, Turn("assistant", loc[t].out.res.answer, req[t].call))]
          /\ UNCHANGED loc
  /\ Goto(t, EndPc(t))
  /\ UNCHANGED << valVars, envVars, index, singVars, held, authVars,
                  analytics_log, nreq, req, resp >>

\* --------------------------------------------- generate_summary (summary)
\* DocumentHandler.load_documents: the CV and the biography read from their
\* files by this call, each tagged with its source; a load that fails gives
\* no document
load_documents(cv_ok, about_ok) ==
  (IF cv_ok THEN << [LoadedDoc("data/cv.pdf") EXCEPT !.source = "cv"] >> ELSE << >>)
  \o (IF about_ok THEN << [LoadedDoc("data/about_me.md") EXCEPT !.source = "about_me"] >>
      ELSE << >>)

\* the try block with the conversation started over by the summary
SummaryRun_resetting(t, cv_ok, about_ok, g) ==
  /\ pc[t] = "s_run"
  /\ loc' = [loc EXCEPT ![t].used = chain["summary"], ![t].gen = 1,
        ![t].docs = load_documents(cv_ok, about_ok),
        ![t].cx = (IF chain["summary"] = 0 THEN "AttributeError" ELSE g.exc), ![t].out =
        IF chain["summary"] = 0 \/ g.st = "raise"
        THEN Returned(Result("fallback", Ans(<< >>, MSG_SUMMARY_FAIL), << >>, TRUE))
        ELSE Returned(Result("generated", Ans(g.text, ""), << >>, FALSE))]
  /\ chat_history' = [chat_history EXCEPT !.turns = << >>]
  /\ Goto(t, EndPc(t))
  /\ UNCHANGED << valVars, envVars, index, singVars, held, authVars,
                  analytics_log, nreq, req, resp >>

\* the try block: load_documents and summary_chain.invoke on the documents
SummaryRun(t, cv_ok, about_ok, g) ==
  /\ pc[t] = "s_run"
  /\ loc' = [loc EXCEPT ![t].used = chain["summary"], ![t].gen = 1,
        ![t].docs = load_documents(cv_ok, about_ok),
        ![t].cx = (IF chain["summary"] = 0 THEN "AttributeError" ELSE g.exc), ![t].out =
        IF chain["summary"] = 0 \/ g.st = "raise"
        THEN Returned(Result("fallback", Ans(<< >>, MSG_SUMMARY_FAIL), << >>, TRUE))
        ELSE Returned(Result("generated", Ans(g.text, ""), << >>, FALSE))]
  /\ Goto(t, EndPc(t))
  /\ UNCHANGED << valVars, envVars, index, singVars, chat_history, held, authVars,
                  analytics_log, nreq, req, resp >>

\* ------------------------------------------- analyze_job_match (job-match)
JobFallback == Returned(Result("fallback", Ans(<< >>, MSG_JOB_FAIL), << >>, TRUE))

\* the try block after get_vectorstore: retrieval, the validation of the
\* prefixed job text and matching_chain.invoke; retr_ok: retrieval did not raise
JobRun(t, retr_ok, g) ==
  /\ pc[t] = "j_run"
  /\ LET v == validate_job_text(job_doc_content(loc[t].doc)) IN
     IF ~retr_ok THEN loc' = [loc EXCEPT ![t].out = JobFallback, ![t].cx = "Exception"]
     ELSE IF v.st = "raise"
     THEN loc' = [loc EXCEPT ![t].out = JobFallback, ![t].cx = "validation"]
     ELSE loc' = [loc EXCEPT ![t].used = chain["job"], ![t].gen = 1,
             ![t].cx = (IF chain["job"] = 0 THEN "AttributeError" ELSE g.exc), ![t].out =
             IF chain["job"] = 0 \/ g.st = "raise" THEN JobFallback
             ELSE Returned(Result("generated", Ans(g.text, ""), retrieve(retrieval_k), FALSE))]
  /\ Goto(t, EndPc(t))
  /\ UNCHANGED << valVars, envVars, index, singVars, chat_history, held, authVars,
                  analytics_log, nreq, req, resp >>

\* --------------------------------------------------------- specification
Calls(t) ==
  \/ \E q \in ChatQueries : DirectCall(t, "chat", q, NoMeta)
  \/ DirectCall(t, "summary", << >>, NoMeta)
  \/ \E d \in JobDocs : DirectCall(t, "job-match", d, NoMeta)

\* the same calls with the user_metadata argument given
CallsMeta(t) ==
  \/ \E q \in ChatQueries, m \in MetaValues : DirectCall(t, "chat", q, m)
  \/ \E m \in MetaValues : DirectCall(t, "summary", << >>, m)
  \/ \E d \in JobDocs, m \in MetaValues : DirectCall(t, "job-match", d, m)

\* the cookie of a request: none (0) or a session token
Tokens == 0..MaxRequests

Requests(t) ==
  \/ \E code \in LoginCodes, logok \in BOOLEAN, runok \in BOOLEAN : Login(t, code, logok, runok)
  \/ \E tok \in Tokens : Logout(t, tok)
  \/ \E tok \in Tokens, q \in ChatQueries : RouteBegin(t, "chat", tok, q)
  \/ \E tok \in Tokens : RouteBegin(t, "summary", tok, << >>)
  \/ \E tok \in Tokens, x \in JobTexts : RouteBegin(t, "job-match", tok, x)
  \/ \E logok \in BOOLEAN : RouteEnd(t, logok)

\* E: exception types of a failing collaborator, B: outcomes of a document
\* load, X: outcomes of the classifier, G: outcomes of generation
Singleton(t, E) ==
  \/ New1(t) \/ NewAcquire(t) \/ New3(t)
  \/ (\E e \in E \cup {"none"} : Init1(t, e))
  \/ Init3(t) \/ Init4(t)

ChainBuild(t, E) ==
  \/ Call1(t) \/ ChainAcquire(t)
  \/ \E e \in E \cup {"none"} : ChainSet(t, e)

Vectorstore(t, B) ==
  \/ \E r \in BOOLEAN : VsProbe(t, r)
  \/ \E c \in B, a \in B, ok \in BOOLEAN : VsSetup(t, c, a, ok)
  \/ \E ok \in BOOLEAN : VsLoad(t, ok)

Bodies(t, B, X, G) ==
  \/ H1Acquire(t) \/ H1Body(t)
  \/ \E i \in X, g \in G, o \in X : ChatInvoke(t, i, g, o)
  \/ H2(t)
  \/ \E c \in B, a \in B, g \in G : SummaryRun(t, c, a, g)
  \/ \E r \in BOOLEAN, g \in G : JobRun(t, r, g)

Pipeline(t, E, B, X, G) ==
  Singleton(t, E) \/ ChainBuild(t, E) \/ Vectorstore(t, B) \/ Bodies(t, B, X, G)

\* threads calling the pipeline operations concurrently; one kind of failure
\* and one model output are enough for the interleavings
ConcGen == { g \in GenOutcomes : g.exc = "Exception" \/ (g.st = "ok" /\ g.text # << >>
                                                        /\ MockGuard_validate(g.text) = "pass") }

Next == \E t \in Threads : Calls(t) \/ Pipeline(t, {"Exception"}, {TRUE}, {"pass"}, ConcGen)

Spec == Init /\ [][Next]_vars

\* the threads under a fair scheduler, with collaborators that return or
\* raise: a thread that can go on with its call does so in the end
SpecFair ==
  Spec /\ \A t \in Threads : WF_vars(Pipeline(t, {"Exception"}, {TRUE}, {"pass"}, ConcGen))

\* one caller that passes user metadata to every call
NextMeta ==
  \E t \in {1} : CallsMeta(t) \/ Pipeline(t, {"Exception"}, {TRUE}, {"pass"}, ConcGen)

SpecMeta == Init /\ [][NextMeta]_vars

\* the routes: the handlers are coroutines of one event loop and call the
\* pipelines synchronously, so one request is served at a time; every
\* outcome of every collaborator
NextRoutes ==
  \E t \in {1} : Requests(t) \/ Pipeline(t, ExcTypes, BOOLEAN, ClassifierOutcomes, GenOutcomes)

SpecRoutes == InitRoutes /\ [][NextRoutes]_vars

\* the validators of guardrails.py called on their own
CallValidateQuery ==
  /\ vout.st = "none"
  /\ vout' = validate_query_input(guardrails_available, vq, vext)
  /\ UNCHANGED << guardrails_available, vq, vext, rout, jt, jout, jre, langsmith_client, index, instance,
                  chain, chain_lock, history_lock, chat_history, held, active_sessions,
                  active_chat_runs, analytics_log, next_token, nreq, builds,
                  pc, req, loc, resp >>

\* validate_response_output applied to the text vq as a response
CallValidateResponse ==
  /\ rout.st = "none"
  /\ rout' = validate_response_result(guardrails_available, vq, vext)
  /\ UNCHANGED << guardrails_available, vq, vext, vout, jt, jout, jre, langsmith_client, index, instance,
                  chain, chain_lock, history_lock, chat_history, held, active_sessions,
                  active_chat_runs, analytics_log, next_token, nreq, builds,
                  pc, req, loc, resp >>

NextValidate == CallValidateQuery \/ CallValidateResponse

SpecValidate == InitValidate /\ [][NextValidate]_vars

\* the job text functions called on their own: ingestion of the text by
\* DocumentHandler.process_text
CallProcessText ==
  /\ jout.st = "none"
  /\ jout' = process_text(jt)
  /\ UNCHANGED << guardrails_available, vq, vext, vout, rout, jt, jre, langsmith_client,
                  index, instance, chain, chain_lock, history_lock, chat_history, held,
                  active_sessions, active_chat_runs, analytics_log, next_token, nreq,
                  builds, pc, req, loc, resp >>

\* analyze_job_match on the Document of process_text: job_doc and
\* self.validator.validate_job_text(job_doc.page_content)
CallRevalidate ==
  /\ jout.st = "ret" /\ jre.st = "none"
  /\ jre' = validate_job_text(job_doc_content(jout.val))
  /\ UNCHANGED << guardrails_available, vq, vext, vout, rout, jt, jout, langsmith_client,
                  index, instance, chain, chain_lock, history_lock, chat_history, held,
                  active_sessions, active_chat_runs, analytics_log, next_token, nreq,
                  builds, pc, req, loc, resp >>

NextJob == CallProcessText \/ CallRevalidate

SpecJob == InitJob /\ [][NextJob]_vars

\* ======================================================================
\* Claims about validate_query_input (specification SpecValidate)
\* ======================================================================
\* what the claims say about a query, stated on the text itself
Flagged == IF guardrails_available THEN vext # "pass"
           ELSE \E i \in 1..Len(vq) : vq[i].k = "word" /\ vq[i].w \in bad_words
TrimmedLen == StrLen(str_strip(vq))
HasDeniedKeyword == \E i \in 1..Len(vq) : vq[i].k = "word" /\ vq[i].w \in irrelevant_keywords
RaisedWith(m) == vout.st = "raise" /\ vout.exc = "ValueError" /\ vout.msg = m

\* C4 (as stated): every query of trimmed length < 3 fails with the too-short
\* error and every query longer than max_query_length fails with the too-long
\* error, whatever its content.
C4_Original ==
  vout.st # "none" =>
    /\ (TrimmedLen < min_query_length => RaisedWith(MSG_SHORT))
    /\ (StrLen(vq) > max_query_length => RaisedWith(MSG_LONG))

\* C4 (amended): a query of trimmed length < 3 or of length > max_query_length
\* always fails with a ValueError; the error is the too-short one when the
\* classifier does not flag the query and its trimmed length is < 3, and the
\* too-long one when the classifier does not flag it, its trimmed length is
\* >= 3 and its length exceeds the maximum.
C4_LengthErrors ==
  vout.st # "none" =>
    /\ (TrimmedLen < min_query_length \/ StrLen(vq) > max_query_length
          => vout.st = "raise" /\ vout.exc = "ValueError")
    /\ (~Flagged /\ TrimmedLen < min_query_length => RaisedWith(MSG_SHORT))
    /\ (~Flagged /\ TrimmedLen >= min_query_length /\ StrLen(vq) > max_query_length
          => RaisedWith(MSG_LONG))

\* C4 witness: a blank-padded query, not flagged, too short after trimming
\* and longer than the maximum, was rejected as too short.
C4_Witness ==
  /\ vout.st = "raise" /\ ~Flagged
  /\ TrimmedLen < min_query_length /\ TrimmedLen > 0
  /\ StrLen(vq) > max_query_length

\* C10: validate_query_input(q) returns q unchanged exactly when q is not
\* flagged, has trimmed length >= 3, length <= max_query_length and no denied
\* keyword in any case; otherwise it raises ValueError, and a query failing
\* only the keyword check gets the 'professional qualifications' message.
C10_AcceptExactly ==
  vout.st # "none" =>
    LET lenOk == TrimmedLen >= min_query_length /\ StrLen(vq) <= max_query_length
        good == ~Flagged /\ lenOk /\ ~HasDeniedKeyword
    IN /\ (good => vout.st = "ret" /\ vout.val = vq)
       /\ (~good => vout.st = "raise" /\ vout.exc = "ValueError")
       /\ (~Flagged /\ lenOk /\ HasDeniedKeyword => RaisedWith(MSG_OFFTOPIC))

\* C10 witness: a query with an upper-case denied keyword was rejected as off
\* topic.
C10_Witness ==
  /\ RaisedWith(MSG_OFFTOPIC)
  /\ \E i \in 1..Len(vq) : vq[i].k = "word" /\ vq[i].up



\* ======================================================================
\* Claims about the pipelines called by concurrent threads (Spec)
\* ======================================================================
\* C1: for each pipeline, when threads call its operation concurrently from
\* fresh process state the chain-build sequence runs exactly once in total,
\* so no pipeline ever completes a second build.
C1_SingleBuild == \A p \in Pipes : builds[p] <= 1

\* C2: get_completion, generate_summary and analyze_job_match never let an
\* exception escape, for every failure of a collaborator during the call,
\* the chain construction and the index build or load on first use included:
\* no call ends with an exception raised by the chain build of the method.
C2_NoEscape ==
  \A t \in Threads : ~(loc[t].out.st = "raise" /\ loc[t].out.at = "build")

\* ======================================================================
\* Claims about the requests served one after another (SpecRoutes)
\* ======================================================================
\* C3: chat calls made one after another leave two turns each in the
\* history, the query and then its answer, whatever the outcome of the
\* call: when a call that began with n turns has returned, the history
\* holds n + 2 turns, turn n + 1 the query and turn n + 2 the assistant's.
C3_TwoTurnsPerCall ==
  \A t \in Threads :
    (pc[t] = "idle" /\ req[t].kind = "chat" /\ loc[t].p = "chat" /\ loc[t].out.st = "ret") =>
      LET h == chat_history.turns
          n == loc[t].h0
      IN /\ Len(h) = n + 2
         /\ h[n + 1].role = "human" /\ h[n + 1].content = Ans(req[t].text, "")
         /\ h[n + 2].role = "assistant"

\* C5: for every input that passes input validation and every model output,
\* the answer a pipeline returns is a non-empty string.
C5_NonEmptyAnswer ==
  \A t \in Threads :
    (loc[t].out.st = "ret" /\ loc[t].out.res.kind = "generated") =>
      ~AnsEmpty(loc[t].out.res.answer)

\* C6 (as stated): when the index directory exists but is empty,
\* get_vectorstore does not raise, runs setup_vectorstore and returns a
\* populated index, for every outcome of the two document loads (the
\* embedding model and the store working).
C6_Original ==
  \A t \in Threads :
    (loc[t].vs.entry = "empty" /\ loc[t].vs.done # "none" /\ loc[t].vs.store) =>
      /\ loc[t].vs.done = "ret"
      /\ loc[t].vs.path = "setup"
      /\ loc[t].vs.count >= 1

\* C6 (amended): when the index directory exists but is empty,
\* get_vectorstore runs setup_vectorstore; a failed document load does not
\* make it raise (it raises only when the embedding model or the store
\* raises), and the index it returns is populated when at least one of the
\* two loads gave its document.
C6_SetupTolerant ==
  \A t \in Threads :
    (loc[t].vs.entry = "empty" /\ loc[t].vs.done # "none") =>
      /\ loc[t].vs.path = "setup"
      /\ (loc[t].vs.done = "raise" => ~loc[t].vs.store)
      /\ (loc[t].vs.done = "ret" /\ (loc[t].vs.cv \/ loc[t].vs.about)
            => loc[t].vs.count >= 1)

\* C6 witness: the directory was empty, the load of the CV failed, and
\* get_vectorstore returned an index populated from the other document.
C6_Witness ==
  \E t \in Threads :
    /\ loc[t].vs.entry = "empty" /\ loc[t].vs.done = "ret"
    /\ ~loc[t].vs.cv /\ loc[t].vs.about
    /\ loc[t].vs.count >= 1

\* C7: a job-match request of an authenticated user whose text has trimmed
\* length below min_job_text_length is answered 400 with the ValueError of
\* the length check, and the request makes no pipeline call: no index
\* access, no retrieval, no generation.
C7_ShortJobRejected ==
  \A t \in Threads :
    (/\ req[t].kind = "job-match" /\ ~req[t].direct
     /\ resp[t].status # 401
     /\ StrLen(str_strip(req[t].text)) < min_job_text_length) =>
      /\ resp[t].status = 400
      /\ resp[t].detail \in {MSG_JOB_REQUIRED, MSG_JOB_SHORT}
      /\ pc[t] = "idle"
      /\ loc[t].p = "none" /\ loc[t].idx = 0 /\ loc[t].gen = 0

\* C7 witness: a text of 100 characters, 40 of them after trimming, was
\* rejected with the too-short error.
C7_Witness ==
  \E t \in Threads :
    /\ req[t].kind = "job-match" /\ resp[t].status = 400
    /\ resp[t].detail = MSG_JOB_SHORT
    /\ StrLen(req[t].text) >= min_job_text_length
    /\ StrLen(str_strip(req[t].text)) < min_job_text_length

\* C8: every entry of relevant_sections of a job-match result is 'cv' or
\* 'about_me': every chunk of the index carries the tag of its document and
\* retrieval returns chunks of the index.
C8_SourcesTagged ==
  /\ \A i \in DOMAIN index.chunks : index.chunks[i] \in {"cv", "about_me"}
  /\ \A t \in Threads :
       (loc[t].p = "job" /\ loc[t].out.st = "ret") =>
         \A i \in DOMAIN loc[t].out.res.sources :
           loc[t].out.res.sources[i] \in {"cv", "about_me"}

\* C8 witness: a job-match call built the index itself and returned an
\* analysis whose relevant_sections name the biography.
C8_Witness ==
  \E t \in Threads :
    /\ loc[t].p = "job" /\ loc[t].out.st = "ret" /\ loc[t].out.res.kind = "generated"
    /\ loc[t].vs.path = "setup"
    /\ \E i \in DOMAIN loc[t].out.res.sources : loc[t].out.res.sources[i] = "about_me"

\* C9: after a login with an active invite code and one chat call on that
\* session, the query count of the session is one more than before the call.
C9_QueryCounted ==
  \A t \in Threads :
    (/\ req[t].kind = "chat" /\ ~req[t].direct /\ pc[t] = "idle"
     /\ resp[t].status = 200
     /\ req[t].tok \in DOMAIN active_chat_runs) =>
      query_count(req[t].tok) = loc[t].qc0 + 1

\* ======================================================================
\* Claims about the validators (specification SpecValidate), continued
\* ======================================================================
\* C11: validate_response_output never raises: for every response and every
\* outcome of the classifier, the classifier raising included, it returns
\* the response unchanged or the configured fallback string.
C11_ResponseOrFallback ==
  rout.st # "none" =>
    /\ rout.st = "ret"
    /\ rout.val \in {Ans(vq, ""), Ans(<< >>, MSG_FALLBACK)}
    /\ (rout.val = Ans(vq, "") <=> content_guard(guardrails_available, vq, vext) = "pass")

\* C11 witness: the classifier of the package failed on a response for a
\* reason of its own and the fallback string was returned.
C11_Witness ==
  /\ guardrails_available /\ vext = CLS_OTHER
  /\ rout = Ret(Ans(<< >>, MSG_FALLBACK))

\* the fixed messages of validate_query_input, one per category
QueryMessages == {MSG_SHORT, MSG_LONG, MSG_OFFTOPIC, MSG_PROFESSIONAL, MSG_INJECTION,
                  MSG_GENERIC}

\* C12: every failure of validate_query_input is a ValueError whose message
\* is one of the fixed per-category messages; the text of an exception of
\* the content classifier is never the message given to the caller.
C12_FixedMessages ==
  vout.st = "raise" =>
    /\ vout.exc = "ValueError"
    /\ vout.msg \in QueryMessages
    /\ vout.msg \notin (ClassifierOutcomes \cup {MSG_MOCK})

\* C12 witness: the classifier raised with a text of its own and the caller
\* got the generic message; the mock guard's text was replaced as well.
C12_Witness ==
  /\ vout.st = "raise" /\ vout.msg = MSG_GENERIC
  /\ \/ guardrails_available /\ vext = CLS_OTHER
     \/ ~guardrails_available /\ MockGuard_validate(vq) = MSG_MOCK

\* ======================================================================
\* Claims about the requests served one after another (SpecRoutes), continued
\* ======================================================================
\* C13: when the chain invocation of a chat call raises an exception that is
\* not an input-validation failure, of whatever type, get_completion returns
\* the configured fallback answer with no sources, and the chain was invoked
\* once in that call.
C13_FallbackNoRetry ==
  \A t \in Threads :
    (/\ loc[t].p = "chat" /\ loc[t].out.st = "ret"
     /\ loc[t].cx \notin {"", "validation"}) =>
      /\ loc[t].out = ChatFallback
      /\ loc[t].inv <= 1

\* the safe messages a pipeline returns after a failure it absorbed
FallbackMessages == {MSG_FALLBACK, MSG_SUMMARY_FAIL, MSG_JOB_FAIL}

\* C14: whenever a pipeline absorbs an internal failure, the result that
\* carries the safe fallback message carries an `error` field as well, for
\* chat, summary and job-match alike.
C14_FallbackHasError ==
  \A t \in Threads :
    (/\ loc[t].out.st = "ret"
     /\ loc[t].cx \notin {"", "validation"}
     /\ loc[t].out.res.answer.msg \in FallbackMessages) =>
      loc[t].out.res.error

\* the input of the request of t failed validation: at ingestion of the job
\* text, or inside the pipeline call
InputRejected(t) ==
  \/ loc[t].cx = "validation"
  \/ /\ req[t].kind = "job-match" /\ resp[t].status # 401
     /\ process_job_description(req[t].text).st = "raise"

\* a request to one of the three pipeline routes has been answered
Answered(t) ==
  /\ ~req[t].direct /\ pc[t] = "idle"
  /\ req[t].kind \in {"chat", "summary", "job-match"}

\* C15: a validation failure of user input (a chat query, or job text at
\* ingestion or inside analyze_job_match) reaches the route layer as an error
\* and is answered as a client error, never as a normal result.
C15_ValidationIsClientError ==
  \A t \in Threads :
    (Answered(t) /\ InputRejected(t)) => resp[t].status \in 400..499

\* C16: a chat, summary or job-match request of an authenticated caller gets
\* a non-2xx response only when its input fails validation; every other
\* failure is absorbed into a 2xx response.
C16_OnlyValidationFails ==
  \A t \in Threads :
    (Answered(t) /\ resp[t].status # 401 /\ resp[t].status \notin 200..299) =>
      InputRejected(t)

\* s is a prefix of u
IsPrefix(s, u) == Len(s) <= Len(u) /\ SubSeq(u, 1, Len(s)) = s

\* C17: Conversation History is append-only under every interleaving of
\* callers: every step leaves the previous history as a prefix of the new
\* one, and once the history is a list it is never reset to None.
C17_AppendOnly ==
  [][/\ IsPrefix(chat_history.turns, chat_history'.turns)
     /\ (~chat_history.none => ~chat_history'.none)]_vars

\* C18: once the chain reference of a pipeline is set, no step of any thread
\* reassigns or clears it.
C18_ChainFixed ==
  [][\A p \in Pipes : chain[p] # 0 => chain'[p] = chain[p]]_vars

\* C19: for each pipeline class at most one instance is ever created, however
\* the constructor calls of the threads interleave: an instance is created
\* only while cls._instance is None, so every call returns that one instance.
C19_OneInstance ==
  [][\A p \in Pipes :
       (instance'[p] = "created" /\ instance[p] # "created") => instance[p] = "None"]_vars

\* two threads construct the same class at once: one created the instance
\* and still holds the class lock, the other passed the unlocked test and
\* waits for the lock
C19_Witness ==
  \E t, u \in Threads :
    /\ t # u /\ P(t) = P(u)
    /\ pc[t] = "new3" /\ pc[u] = "new_acq"
    /\ instance[P(t)] = "created"

\* C20: a login with an invite code that is not configured or not active is
\* answered 401, creates no session token and leaves active_sessions as it
\* was.
C20_InvalidLogin ==
  [][\A t \in Threads :
       (/\ req'[t].kind = "login" /\ req'[t].call # req[t].call
        /\ ~(req'[t].code \in DOMAIN INVITE_CODES /\ INVITE_CODES[req'[t].code])) =>
         /\ resp'[t].status = 401
         /\ active_sessions' = active_sessions
         /\ next_token' = next_token]_vars

\* a login with the configured but inactive code was refused while another
\* session exists
C20_Witness ==
  \E t \in Threads :
    /\ req[t].kind = "login" /\ req[t].code = "OLD-0000"
    /\ resp[t].status = 401
    /\ DOMAIN active_sessions # {}

ProtectedKinds == {"chat", "summary", "job-match"}

\* C21: a protected operation is admitted only for a request whose session
\* token is in active_sessions at that moment; a logout always answers
\* success, removes its token and nothing else, and leaves active_sessions
\* unchanged when there is no cookie or the token is unknown; a token that
\* was removed is never in active_sessions again.
C21_SessionAdmission ==
  [][\A t \in Threads :
       LET r == req'[t] IN
       /\ (r.call # req[t].call /\ r.kind \in ProtectedKinds) =>
            (resp'[t].status # 401 <=> (r.tok # 0 /\ r.tok \in DOMAIN active_sessions))
       /\ (r.call # req[t].call /\ r.kind = "logout") =>
            /\ resp'[t].status = 200
            /\ DOMAIN active_sessions' = DOMAIN active_sessions \ {r.tok}
            /\ (r.tok \notin DOMAIN active_sessions => active_sessions' = active_sessions)
       /\ \A k \in 1..(next_token - 1) :
            k \notin DOMAIN active_sessions => k \notin DOMAIN active_sessions'
    ]_vars

\* a protected request carrying the token of a session that was logged out
\* has been refused
C21_Witness ==
  \E t \in Threads :
    /\ req[t].kind \in ProtectedKinds
    /\ req[t].tok \in 1..(next_token - 1)
    /\ req[t].tok \notin DOMAIN active_sessions
    /\ resp[t].status = 401

\* thread t holds a history lock object
HoldsHistoryLock(t) == \E l \in held[t] : l[1] = "history"

\* thread t holds a chain-construction lock object
HoldsChainLock(t) == \E l \in held[t] : l[1] = "chain"

\* the step is a with-block of get_completion on the history, run by a
\* thread that holds the history lock during it
HistoryStepUnderLock ==
  \E t \in Threads :
    /\ pc'[t] # pc[t]
    /\ \/ pc[t] = "h1_body" /\ HoldsHistoryLock(t)
       \/ pc[t] = "h2" /\ IsFree(HistoryLock)

\* C22: every step that changes Conversation History is taken by a thread
\* holding the history lock, and no thread holds the history lock while its
\* chain invocation is running.
C22_HistoryUnderLock ==
  [][/\ (chat_history' # chat_history => HistoryStepUnderLock)
     /\ \A t \in Threads : pc'[t] = "invoke" => ~(\E l \in held'[t] : l[1] = "history")
    ]_vars

\* thread t is inside get_vectorstore (index build or load, embeddings) or
\* inside a generation call
InHeavyCall(t) ==
  pc[t] \in {"vs_probe", "vs_setup", "vs_load", "invoke", "s_run", "j_run"}

\* C23: no index build or load, embedding call or generation call runs while
\* the calling thread holds a chain-construction lock or the history lock.
C23_HeavyOutsideLocks ==
  \A t \in Threads : InHeavyCall(t) => ~HoldsChainLock(t) /\ ~HoldsHistoryLock(t)

\* C24: the body of __init__ takes effect at most once: once the singleton
\* of a class is initialised, no step of any thread resets its chain or the
\* history to None or replaces its chain lock or the history lock.
C24_InitOnce ==
  [][\A p \in Pipes :
       instance[p] = "ready" =>
         /\ chain_lock'[p] = chain_lock[p]
         /\ (chain[p] # 0 => chain'[p] # 0)
         /\ (p = "chat" => /\ history_lock' = history_lock
                           /\ (~chat_history.none => ~chat_history'.none))
    ]_vars

\* C25: get_vectorstore has no coordination of its own: a thread at the
\* not-populated check goes on into setup_vectorstore whatever the other
\* threads are doing, also while another thread is executing
\* setup_vectorstore, and a thread in setup_vectorstore is never held up.
C25_NoCoordination ==
  \A t \in Threads :
    /\ (pc[t] = "vs_probe" /\ needs_setup(FALSE)) =>
         ENABLED (VsProbe(t, FALSE) /\ pc'[t] = "vs_setup")
    /\ pc[t] = "vs_setup" => ENABLED VsSetup(t, TRUE, TRUE, TRUE)

\* a job-match call and the first chain build of the chat pipeline both
\* passed the not-populated check and are both inside setup_vectorstore
C25_Witness ==
  \E t, u \in Threads :
    /\ t # u
    /\ pc[t] = "vs_setup" /\ pc[u] = "vs_setup"
    /\ P(t) = "job" /\ P(u) = "chat"
    /\ loc[t].vs.path = "setup" /\ loc[u].vs.path = "setup"


\* the human turn of the call thread t is serving
OwnHumanTurn(t) == Turn("human", Ans(req[t].text, ""), req[t].call)

C27_OneTimeline ==
  [][\A t \in Threads :
       (pc[t] = "h1_body" /\ pc'[t] = "invoke") =>
         /\ current_history(t)' = Append(chat_history.turns, OwnHumanTurn(t))
         /\ chat_history'.turns = current_history(t)'
    ]_vars

\* the turns of two concurrent chat callers interleaved: human A, human B,
\* assistant A, assistant B; the history passed to B's chain held A's query
C27_Witness ==
  \E a, b \in 1..MaxCalls :
    /\ a # b
    /\ Len(chat_history.turns) = 4
    /\ [i \in 1..4 |-> chat_history.turns[i].role] =
         << "human", "human", "assistant", "assistant" >>
    /\ [i \in 1..4 |-> chat_history.turns[i].call] = << a, b, a, b >>
    /\ \E u \in Threads : /\ req[u].call = b
                          /\ Len(loc[u].snap) = 2 /\ loc[u].snap[1].call = a

\* C28: in a chat call input validation runs before retrieval and
\* generation, which do not run when it fails; output validation runs after
\* generation only, and when it finds a violation the call still returns a
\* generated result whose answer is the fallback text.
C28_ValidationOrder ==
  \A t \in Threads :
    (loc[t].p = "chat" /\ loc[t].out.st = "ret" /\ loc[t].cx # "AttributeError") =>
      /\ loc[t].cx = "validation" =>
           /\ loc[t].gen = 0 /\ loc[t].ov = ""
           /\ loc[t].out.res.kind \in {"validation", "fallback"}
           /\ loc[t].out.res.sources = << >>
      /\ loc[t].ov # "" => loc[t].gen = 1 /\ loc[t].cx = ""
      /\ loc[t].ov = "replaced" =>
           /\ loc[t].out.res.kind = "generated"
           /\ loc[t].out.res.answer = Ans(<< >>, MSG_FALLBACK)
      /\ loc[t].ov = "pass" =>
           /\ loc[t].out.res.kind = "generated"
           /\ loc[t].out.res.answer.msg = ""

\* a chat request whose query failed input validation was answered without
\* generation, after an earlier chat call whose generated answer the output
\* validator replaced by the fallback text
C28_Witness ==
  \E t \in Threads :
    /\ pc[t] = "idle" /\ req[t].kind = "chat" /\ resp[t].status = 200
    /\ loc[t].cx = "validation" /\ loc[t].gen = 0
    /\ \E i \in 1..Len(chat_history.turns) :
         /\ chat_history.turns[i].role = "assistant"
         /\ chat_history.turns[i].content = Ans(<< >>, MSG_FALLBACK)
         /\ chat_history.turns[i].call # req[t].call

\* C29: get_vectorstore runs setup_vectorstore exactly when the index path
\* is missing, the directory is empty or holds no recognised index file, or
\* the load-and-count probe reports zero vectors or raises; otherwise it
\* loads the existing index and leaves the stored index as it is. The probe
\* never makes the call raise.
C29_RebuildExactly ==
  [][\A t \in Threads :
       /\ (pc[t] = "vs_probe" /\ pc'[t] # pc[t]) =>
            LET rebuild == \/ index.dir \in {"missing", "empty", "other"}
                           \/ Len(index.chunks) = 0
                           \/ loc'[t].vs.praise IN
            /\ pc'[t] = (IF rebuild THEN "vs_setup" ELSE "vs_load")
            /\ loc'[t].out = loc[t].out
            /\ index' = index
       /\ (pc[t] = "vs_load" /\ pc'[t] # pc[t]) => index' = index
    ]_vars

\* the index was populated, the probe raised, and get_vectorstore rebuilt
\* the index and returned it
C29_Witness ==
  \E t \in Threads :
    /\ loc[t].vs.entry = "chroma" /\ loc[t].vs.praise
    /\ loc[t].vs.path = "setup" /\ loc[t].vs.done = "ret"
    /\ loc[t].vs.count > Len(PopulatedChunks)

\* the chunks of one document source: none when its load failed
ChunksOf(tag, loaded) == IF loaded THEN [i \in 1..ChunksPerDoc |-> tag] ELSE << >>

\* C30: the index build tolerates each document source failing on its own:
\* whatever the two loads do, the build goes on (it raises only when the
\* embedding model or the store raises) and adds exactly the chunks of the
\* sources that loaded, the CV's tagged 'cv' and the biography's 'about_me'.
C30_IndependentSources ==
  [][\A t \in Threads :
       (pc[t] = "vs_setup" /\ pc'[t] # pc[t]) =>
         /\ loc'[t].vs.done = (IF loc'[t].vs.store THEN "ret" ELSE "raise")
         /\ loc'[t].vs.store =>
              index'.chunks = index.chunks \o ChunksOf("cv", loc'[t].vs.cv)
                                           \o ChunksOf("about_me", loc'[t].vs.about)
         /\ ~loc'[t].vs.store => index' = index
    ]_vars

\* the load of the biography failed and the build returned an index holding
\* the chunks of the CV only
C30_Witness ==
  \E t \in Threads :
    /\ loc[t].vs.path = "setup" /\ loc[t].vs.done = "ret"
    /\ loc[t].vs.cv /\ ~loc[t].vs.about
    /\ index.chunks = ChunksOf("cv", TRUE)

\* the text holds a domain keyword, English or German, as a whole word in
\* any case
HasDomainKeyword(text) ==
  \E i \in 1..Len(text) :
    /\ text[i].k = "word"
    /\ text[i].w \in english_keywords \cup german_keywords
    /\ (i > 1 => text[i - 1].k \in {"ws", "punct"})
    /\ (i < Len(text) => text[i + 1].k \in {"ws", "punct", "tag"})

\* the text is one process_text has to accept
AcceptableJobText(text) ==
  LET t == str_strip(text) IN
  /\ StrLen(t) >= min_job_text_length /\ StrLen(t) <= max_job_text_length
  /\ HasDomainKeyword(t)
  /\ \A i \in 1..Len(t) : t[i].k \notin {"tag", "event"}

\* C31: process_text returns a Document exactly for the texts whose trimmed
\* length is within the two bounds, that hold a domain keyword and hold no
\* disallowed tag and no event-handler attribute; for every other text it
\* raises ValueError.
C31_DocumentOnlyForValid ==
  jout.st # "none" =>
    /\ (jout.st = "ret" <=> AcceptableJobText(jt))
    /\ (jout.st # "ret" => jout.st = "raise" /\ jout.exc = "ValueError")

\* a text whose trimmed length is exactly the maximum was accepted
C31_Witness ==
  /\ jout.st = "ret"
  /\ StrLen(str_strip(jt)) = max_job_text_length
  /\ jout.val = clean_text(jt)

\* C36: every Document accepted by process_text passes the check of
\* analyze_job_match on its text prefixed with 'JOB DESCRIPTION:' and a
\* newline.
C36_RevalidationAccepts ==
  jre.st # "none" => jre = [st |-> "ret", msg |-> "True"]

\* ------------------------------------------------------------------ C32
\* the values a user_metadata argument carries
MetaAtoms == UNION { {m.user_code, m.company} : m \in MetaValues }

\* an answer or turn content that carries a value of the metadata
HoldsMetadata(a) ==
  \/ a.msg \in MetaAtoms
  \/ \E i \in 1..Len(a.text) : a.text[i].w \in MetaAtoms

C33_SinkFailureHarmless ==
  [][\A t \in {1} :
       /\ (pc[t] = "route_end" /\ pc'[t] = "idle") =>
            \A r \in {resp'[t]} : \A ok \in BOOLEAN :
              ENABLED (RouteEnd(t, ok) /\ resp'[t] = r)
       /\ (req'[t].kind = "login" /\ nreq' = nreq + 1) =>
            \A r \in {<< resp'[t], active_sessions', next_token' >>} :
              \A c \in {req'[t].code} : \A logok \in BOOLEAN, runok \in BOOLEAN :
                ENABLED (Login(t, c, logok, runok)
                         /\ << resp'[t], active_sessions', next_token' >> = r)]_vars

\* a chat request was answered with the result of the pipeline although the
\* write of the login line, create_run and the write of the chat line failed
C33_Witness ==
  /\ pc[1] = "idle" /\ req[1].kind = "chat" /\ resp[1].status = 200
  /\ resp[1].out.st = "ret"
  /\ langsmith_client /\ req[1].tok \notin DOMAIN active_chat_runs
  /\ analytics_log["LOGIN"] = 0 /\ analytics_log["CHAT"] = 0

\* ------------------------------------------------------------------ C34
\* C34: every step of a summary or job-match call leaves the conversation
\* history and the chains of the other pipelines as they are; a summary
\* call leaves the index alone as well, holds no document before its try
\* block and invokes its chain on what load_documents read in that call
C34_SummaryStateless ==
  [][\A t \in Threads :
       (loc'[t].p \in {"summary", "job"} /\ pc'[t] # pc[t]) =>
         /\ chat_history' = chat_history
         /\ \A p \in DOMAIN chain : p # loc'[t].p => chain'[p] = chain[p]
         /\ loc'[t].p = "summary" => index' = index
         /\ pc[t] = "s_run" =>
              /\ loc[t].docs = << >>
              /\ \E c \in BOOLEAN, a \in BOOLEAN : loc'[t].docs = load_documents(c, a)]_vars

\* a summary was generated from both documents while a conversation is
\* recorded and the chat chain is built; both are as the chat call left them
C34_Witness ==
  \E t \in Threads :
    /\ pc[t] = "idle" /\ loc[t].p = "summary" /\ loc[t].out.st = "ret"
    /\ loc[t].out.res.kind = "generated"
    /\ Len(loc[t].docs) = 2
    /\ Len(chat_history.turns) = 2 /\ chain["chat"] # 0 /\ chain["job"] = 0

\* ------------------------------------------------------------------ C35
\* validate_query_input accepts the query for some answer of the classifier
PassesInput(query) ==
  \E x \in ClassifierOutcomes :
    validate_query_input(guardrails_available, query, x).st = "ret"

\* the call that recorded the turn u is no longer running
CallOver(u) == \A t \in Threads : pc[t] = "idle" \/ req[t].call # u.call

\* C35: every human turn that a finished call left in the conversation
\* history is a query validate_query_input accepts, and the history handed
\* to the chain of a call holds no human turn of another call whose query
\* validate_query_input rejects
C35_HistoryValidated ==
  /\ \A i \in 1..Len(chat_history.turns) :
       (chat_history.turns[i].role = "human" /\ CallOver(chat_history.turns[i])) =>
         PassesInput(chat_history.turns[i].content.text)
  /\ \A t \in Threads :
       pc[t] = "invoke" =>
         \A i \in 1..Len(current_history(t)) :
           (current_history(t)[i].role = "human" /\ current_history(t)[i].call # req[t].call) =>
             PassesInput(current_history(t)[i].content.text)

\* ------------------------------------------------------------------ C37
\* C37: no thread holds two lock objects at the same time, whether class
\* lock, chain-construction lock or history lock, and while a call is
\* running some thread can take a step of its call: the threads of the
\* chat, summary and job-match calls never all wait for one another
C37_NoNestedLocks ==
  /\ \A t \in Threads : Cardinality(held[t]) <= 1
  /\ (\E t \in Threads : pc[t] # "idle") =>
       \E t \in Threads : ENABLED Pipeline(t, {"Exception"}, {TRUE}, {"pass"}, ConcGen)

\* one thread is inside the first history block holding the history lock
\* while the other waits for that lock at the same block
C37_Witness ==
  \E t \in Threads, u \in Threads :
    /\ t # u
    /\ pc[t] = "h1_body" /\ held[t] = {HistoryLock}
    /\ pc[u] = "h1_acq" /\ held[u] = {} /\ ~IsFree(HistoryLock)

\* ------------------------------------------------------------------ C38
\* C38: with collaborators that return or raise and a fair scheduler, every
\* call a thread has begun comes to its end, by a result or by an
\* exception, and a thread that is not inside a call holds no lock
C38_EveryCallCompletes ==
  \A t \in Threads :
    /\ [](pc[t] = "idle" => held[t] = {})
    /\ (pc[t] # "idle") ~> (pc[t] = "idle")

\* a chat call has ended by the exception of the index build inside the
\* chain lock and holds nothing, while the other thread is at the chain lock
C38_Witness ==
  \E t \in Threads, u \in Threads :
    /\ t # u
    /\ pc[t] = "idle" /\ loc[t].out = Raised("Exception", "build")
    /\ loc[t].vs.done = "raise" /\ held[t] = {}
    /\ pc[u] = "ch_acq" /\ loc[u].p = "chat"

\* ------------------------------------------------------------------ C39
\* thread t is inside the with block of a chain build
InBuild(t) ==
  /\ pc[t] \in {"ch_set", "vs_probe", "vs_setup", "vs_load"}
  /\ loc[t].cont = "ch_set"

\* C39: the step in which a chain build raises assigns no chain, so that a
\* chain that was unset stays unset, and leaves the thread without any lock; a chain lock is held
\* only by a thread inside a build; and a call that finds the chain unset
\* goes to the chain lock and from there into the build
C39_FailedBuildRetried ==
  [][\A t \in Threads :
       /\ (InBuild(t) /\ loc'[t].out.st = "raise") =>
            /\ chain'[loc[t].p] = chain[loc[t].p]
            /\ held'[t] = {}
       /\ HoldsChainLock(t) => InBuild(t)
       /\ (pc[t] = "call1" /\ pc'[t] # pc[t] /\ chain[loc[t].p] = 0) => pc'[t] = "ch_acq"
       /\ (pc[t] = "ch_acq" /\ pc'[t] # pc[t] /\ chain[loc[t].p] = 0) =>
            /\ pc'[t] \in {"ch_set", "vs_probe"} /\ loc'[t].cont = "ch_set"
            /\ held'[t] = {ChainLock(loc[t].p)}]_vars

\* the chat call of one thread ended by the exception of its chain build, and
\* the later call of the other thread has built the chain
C39_Witness ==
  \E t \in Threads, u \in Threads :
    /\ pc[t] = "idle" /\ loc[t].p = "chat" /\ loc[t].out = Raised("Exception", "build")
    /\ req[u].call > req[t].call /\ loc[u].p = "chat"
    /\ pc[u] = "h1_acq" /\ loc[u].vs.done = "ret"
    /\ chain["chat"] = 1 /\ builds["chat"] = 1
====
